---------------------------- MODULE Spec2Model ----------------------------
(***************************************************************************)
(* A model of the GAIM Lab scoring core (core/agents/pedagogy_agent.py)    *)
(* and of the multi-agent pipeline (core/agents/orchestrator.py).          *)
(*                                                                         *)
(* Units.  Python floats are modelled by exact integers:                   *)
(*   - rubric scores, weights, preset bases and ranges: hundredths of a    *)
(*     point (14.25 points = 1425);                                        *)
(*   - ratios and proportions (0..1 in the source): thousandths;           *)
(*   - per-dimension confidence: hundredths; confidence weights and        *)
(*     confidence.overall: thousandths;                                    *)
(*   - word counts, seconds, 0..100 scores, turn counts: units.            *)
(* A Python value is a record [py |-> "None"] or [py |-> "dict", items |-> *)
(* f] with f a function from keys to values; nested dicts are plain        *)
(* functions.  The seven rubric dimensions are named after their _eval_*   *)
(* methods; the speaking_pattern substrings are the ASCII ones.            *)
(***************************************************************************)
EXTENDS Integers, Sequences, FiniteSets, TLC

VARIABLES
    \* ---- PedagogyAgent ----
    self,          \* the PedagogyAgent instance: preset, continuous_scoring, steepness
    instances,     \* number of PedagogyAgent instances constructed so far
    args,          \* the argument tuple (vision, content, vibe, stt, discourse)
    history,       \* the evaluate calls made so far: [instance, value returned]
    \* ---- AgentOrchestrator ----
    agents,        \* name -> AgentState
    context,       \* SharedContext
    event_log,     \* list of events [type, agent, data]
    pipeline_end,  \* pipeline_end is set (TRUE) or None (FALSE)
    pipeline_id,   \* pipeline_id and pipeline_start are set (TRUE) or None (FALSE)
    main,          \* position of the thread that calls run_pipeline / reset
    worker,        \* name -> position of the _run_agent call for that agent
    outcome,       \* name -> what the agent's phase function did ("none", "ok", "raise")
    returned,      \* the dict run_pipeline returned ([py |-> "None"] before)
    emits,         \* number of _emit calls since construction or the last reset
    entered,       \* name -> number of status writes by _run_agent since then
    _callbacks,    \* number of callbacks registered by on_event
    pending,       \* thread -> the event whose callback loop that thread has yet to run
    delivered,     \* callback -> the events it has been called with, in call order
    swallowed,     \* an exception of a callback has been swallowed by _emit
    saves,         \* the _try_save_to_db calls of the run: TRUE where the row was saved
    observed,      \* what the last get_pipeline_status call of a reader saw of one agent
    access         \* pool agent -> the context fields its phase function read and wrote

pedVars == <<self, instances, args, history>>
cbVars == <<_callbacks, pending, delivered, swallowed>>
orcVars == <<agents, context, event_log, pipeline_end, pipeline_id, main, worker,
             outcome, returned, emits, entered, _callbacks, pending, delivered,
             swallowed, saves, observed, access>>
vars == <<self, instances, args, history, agents, context, event_log,
          pipeline_end, pipeline_id, main, worker, outcome, returned, emits, entered,
          _callbacks, pending, delivered, swallowed, saves, observed, access>>

-----------------------------------------------------------------------------
(* Python values *)

None == [py |-> "None"]
Dict(f) == [py |-> "dict", items |-> f]
EmptyItems == [k \in {} |-> 0]
EmptyDict == Dict(EmptyItems)

\* bool(v) of None or of a dict
Truthy(v) == v.py = "dict" /\ DOMAIN v.items # {}
\* `key in v` for a dict v
Has(v, key) == key \in DOMAIN v.items
\* v.get(key, default) for a dict v
Get(v, key, default) == IF key \in DOMAIN v.items THEN v.items[key] ELSE default
\* f.get(key, default) for a nested dict f
GetIn(f, key, default) == IF key \in DOMAIN f THEN f[key] ELSE default
\* `v or {}`
OrEmpty(v) == IF Truthy(v) THEN v ELSE EmptyDict

Max(a, b) == IF a >= b THEN a ELSE b
Min(a, b) == IF a <= b THEN a ELSE b

RECURSIVE SumSeq(_)
SumSeq(s) == IF s = <<>> THEN 0 ELSE Head(s) + SumSeq(Tail(s))

RECURSIVE SumValues(_)
\* sum(f.values()) of a nested dict
SumValues(f) ==
    IF DOMAIN f = {} THEN 0
    ELSE LET k == CHOOSE x \in DOMAIN f : TRUE
         IN f[k] + SumValues([y \in DOMAIN f \ {k} |-> f[y]])

-----------------------------------------------------------------------------
(* Built-in configuration (the fallback of _load_config) *)

DimNames == <<"expertise", "methods", "language", "attitude", "participation",
              "time", "creativity">>

\* weight of each dimension, hundredths of a point
DEFAULT_DIMENSIONS ==
    [expertise |-> 2000, methods |-> 2000, language |-> 1500, attitude |-> 1500,
     participation |-> 1500, time |-> 1000, creativity |-> 500]

DEFAULT_PRESETS ==
    [default |->
       [expertise     |-> [base |-> 1400, adjust_range |-> 700],
        methods       |-> [base |-> 1400, adjust_range |-> 700],
        language      |-> [base |-> 1000, adjust_range |-> 600],
        attitude      |-> [base |-> 1000, adjust_range |-> 600],
        participation |-> [base |-> 1000, adjust_range |-> 600],
        time          |-> [base |-> 700,  adjust_range |-> 400],
        creativity    |-> [base |-> 300,  adjust_range |-> 250]]]

\* a bin table is the list of its (label, low, high) in insertion order
DEFAULT_BINNING ==
    [gesture_active_ratio |->
        << <<"INACTIVE", 0, 150>>, <<"LOW", 150, 350>>,
           <<"MODERATE", 350, 550>>, <<"ACTIVE", 550, 1000>> >>,
     eye_contact_ratio |->
        << <<"POOR", 0, 200>>, <<"LOW", 200, 400>>, <<"MODERATE", 400, 600>>,
           <<"GOOD", 600, 800>>, <<"EXCELLENT", 800, 1000>> >>,
     filler_ratio |->
        << <<"CLEAN", 0, 20>>, <<"GOOD", 20, 35>>, <<"MODERATE", 35, 50>>,
           <<"HIGH", 50, 70>>, <<"EXCESSIVE", 70, 1000>> >>,
     monotone_ratio |->
        << <<"EXPRESSIVE", 0, 200>>, <<"VARIED", 200, 350>>,
           <<"MODERATE", 350, 500>>, <<"MONOTONE", 500, 700>>,
           <<"FLAT", 700, 1000>> >>,
     teacher_ratio |->
        << <<"STUDENT_LED", 0, 500>>, <<"BALANCED", 500, 650>>,
           <<"TEACHER_MODERATE", 650, 800>>, <<"TEACHER_DOMINANT", 800, 920>>,
           <<"LECTURE_ONLY", 920, 1000>> >>,
     speaking_wpm |->
        << <<"VERY_SLOW", 0, 40>>, <<"SLOW", 40, 60>>, <<"MODERATE", 60, 80>>,
           <<"GOOD", 80, 110>>, <<"FAST", 110, 145>>, <<"VERY_FAST", 145, 999>> >>]

\* the grade of each threshold, whole points
DEFAULT_GRADING ==
    [Ap |-> 90, A |-> 85, Am |-> 80, Bp |-> 75, B |-> 70, Bm |-> 65,
     Cp |-> 60, C |-> 55, Cm |-> 50, D |-> 0]

\* the grade labels as the result carries them
GradeLabel ==
    [Ap |-> "A+", A |-> "A", Am |-> "A-", Bp |-> "B+", B |-> "B", Bm |-> "B-",
     Cp |-> "C+", C |-> "C", Cm |-> "C-", D |-> "D"]

\* thousandths
DEFAULT_CONFIDENCE_WEIGHTS ==
    [vision |-> 200, stt |-> 300, vibe |-> 150, content |-> 150, discourse |-> 200]

-----------------------------------------------------------------------------
(* Module-level helpers *)

\* _safe(d, key, default)
_safe(d, key, default) ==
    IF ~Truthy(d) \/ Has(d, "error") THEN default ELSE Get(d, key, default)

RECURSIVE BinFromClosed(_, _, _)
\* the loop of _bin testing low <= value <= high
BinFromClosed(value, bins, i) ==
    IF i > Len(bins) THEN bins[Len(bins)][1]
    ELSE IF bins[i][2] <= value /\ value <= bins[i][3] THEN bins[i][1]
    ELSE BinFromClosed(value, bins, i + 1)

RECURSIVE BinFrom(_, _, _)
\* the for loop of _bin from position i on; falls through to the last label
BinFrom(value, bins, i) ==
    IF i > Len(bins) THEN bins[Len(bins)][1]
    ELSE IF bins[i][2] <= value /\ value < bins[i][3] THEN bins[i][1]
    ELSE BinFrom(value, bins, i + 1)

\* _bin(value, bins)
_bin(value, bins) == BinFrom(value, bins, 1)

\* PedagogyAgent._bin_metric
_bin_metric(agent, metric_name, value) ==
    IF metric_name \notin DOMAIN agent.binning \/ agent.binning[metric_name] = <<>>
    THEN "UNKNOWN"
    ELSE _bin(value, agent.binning[metric_name])

\* wpm = (wc / dur * 60) if dur > 0 else 0, floored to a whole word per minute:
\* every bin bound of speaking_wpm is a whole number, so the floor falls in the
\* same bin as the quotient
Wpm(wc, dur) == IF dur > 0 THEN (wc * 60) \div dur ELSE 0

\* n / d > pn / pd for d # 0 and pd > 0
RatioGT(n, d, pn, pd) == IF d > 0 THEN n * pd > pn * d ELSE n * pd < pn * d
\* n / d < pn / pd for d # 0 and pd > 0
RatioLT(n, d, pn, pd) == IF d > 0 THEN n * pd < pn * d ELSE n * pd > pn * d

\* round(x, 1) of a score in hundredths: Python rounds the exact binary value
\* to the nearest tenth, and a tie (x.x5 that is exact in binary: x.25, x.75)
\* to the even tenth.  Scores reach this operator as whole tenths or as one of
\* the clamp bounds 14.25 and 4.75, which are exact in binary.
Round1(x) ==
    LET q == x \div 10
        r == x % 10
    IN IF r < 5 THEN 10 * q
       ELSE IF r > 5 THEN 10 * (q + 1)
       ELSE IF q % 2 = 0 THEN 10 * q ELSE 10 * (q + 1)

-----------------------------------------------------------------------------
(* PedagogyAgent *)

\* PedagogyAgent.__init__: the instance fields.  steepness is read from the
\* environment (GAIM_SIGMOID_STEEPNESS); the tables are the built-in ones.
PedagogyAgentNew(preset, continuous_scoring, steepness) ==
    [preset |-> preset,
     continuous_scoring |-> continuous_scoring,
     steepness |-> steepness,
     dimensions |-> DEFAULT_DIMENSIONS,
     binning |-> DEFAULT_BINNING,
     grading |-> DEFAULT_GRADING,
     confidence_weights |-> DEFAULT_CONFIDENCE_WEIGHTS,
     current_preset |-> IF preset \in DOMAIN DEFAULT_PRESETS
                        THEN DEFAULT_PRESETS[preset]
                        ELSE DEFAULT_PRESETS["default"]]

\* round(available / total_possible, 3), thousandths
Round3(num, den) == (2 * 1000 * num + den) \div (2 * den)

\* _compute_confidence dividing by the weights of the available sources only
_compute_confidence_relative(agent, vis_ok, con_ok, stt_ok, vib_ok, disc_ok) ==
    LET cw == agent.confidence_weights
        available == (IF vis_ok THEN GetIn(cw, "vision", 200) ELSE 0)
                   + (IF stt_ok THEN GetIn(cw, "stt", 300) ELSE 0)
                   + (IF vib_ok THEN GetIn(cw, "vibe", 150) ELSE 0)
                   + (IF con_ok THEN GetIn(cw, "content", 150) ELSE 0)
                   + (IF disc_ok THEN GetIn(cw, "discourse", 200) ELSE 0)
    IN [overall |-> IF available > 0 THEN Round3(available, available) ELSE 0,
        vision_available |-> vis_ok,
        content_available |-> con_ok,
        stt_available |-> stt_ok,
        vibe_available |-> vib_ok,
        discourse_available |-> disc_ok,
        data_completeness |-> available]

\* PedagogyAgent._compute_confidence
_compute_confidence(agent, vis_ok, con_ok, stt_ok, vib_ok, disc_ok) ==
    LET cw == agent.confidence_weights
        available == (IF vis_ok THEN GetIn(cw, "vision", 200) ELSE 0)
                   + (IF stt_ok THEN GetIn(cw, "stt", 300) ELSE 0)
                   + (IF vib_ok THEN GetIn(cw, "vibe", 150) ELSE 0)
                   + (IF con_ok THEN GetIn(cw, "content", 150) ELSE 0)
                   + (IF disc_ok THEN GetIn(cw, "discourse", 200) ELSE 0)
        total_possible == SumValues(cw)
    IN [overall |-> IF total_possible > 0 THEN Round3(available, total_possible) ELSE 0,
        vision_available |-> vis_ok,
        content_available |-> con_ok,
        stt_available |-> stt_ok,
        vibe_available |-> vib_ok,
        discourse_available |-> disc_ok,
        data_completeness |-> available]

\* _get_base reading a base that every earlier call has lowered by 0.5
_get_base_drifting(agent, dim_name) ==
    (IF dim_name \in DOMAIN agent.current_preset
     THEN GetIn(agent.current_preset[dim_name], "base", 1000)
     ELSE 1000) - 50 * Len(history)

\* PedagogyAgent._get_base
_get_base(agent, dim_name) ==
    IF dim_name \in DOMAIN agent.current_preset
    THEN GetIn(agent.current_preset[dim_name], "base", 1000)
    ELSE 1000


\* _get_adjust_range allowing one point either side of the base, whatever the
\* preset says
_get_adjust_range_narrow(agent, dim_name) == 100

\* PedagogyAgent._get_adjust_range
_get_adjust_range(agent, dim_name) ==
    IF dim_name \in DOMAIN agent.current_preset
    THEN GetIn(agent.current_preset[dim_name], "adjust_range", 500)
    ELSE 500

\* w * 0.95 of a weight in hundredths (every weight is a multiple of 0.05)
EffectiveCap(w) == (w * 95) \div 100

\* pct = (score / w) * 100 in thousandths of a percent.  Scores are whole
\* tenths and the weights 5, 10, 15 and 20, so two different quotients are
\* 0.16 percent apart or more: the floor keeps their order and the comparisons
\* with 80 and 60.
Percentage(score, w) == (score * 100000) \div w

\* _make_score without the two clamps: the rounded raw base
_make_score_unclamped(agent, name, base, confidence) ==
    LET w == GetIn(agent.dimensions, name, GetIn(DEFAULT_DIMENSIONS, name, 1000))
    IN [name |-> name, score |-> Round1(base), max_score |-> w,
        percentage |-> Percentage(Round1(base), w), confidence |-> confidence]

\* PedagogyAgent._make_score, without the feedback text and the tips
_make_score(agent, name, base, confidence) ==
    LET w == GetIn(agent.dimensions, name, GetIn(DEFAULT_DIMENSIONS, name, 1000))
        preset_base == _get_base(agent, name)
        adj_range == _get_adjust_range(agent, name)
        effective_max == Min(preset_base + adj_range, EffectiveCap(w))
        effective_min == Max(preset_base - adj_range, 0)
        clamped == Max(effective_min, Min(effective_max, base))
        score == Max(0, Min(w, Round1(clamped)))
    IN [name |-> name, score |-> score, max_score |-> w,
        percentage |-> Percentage(score, w), confidence |-> confidence]

\* the if/elif chain on a bin label: the delta of the label, 0 for any other
Delta(label, table) == GetIn(table, label, 0)

\* the speaking-rate bin of an stt dict
WpmBin(agent, stt) ==
    _bin_metric(agent, "speaking_wpm",
                Wpm(Get(stt, "word_count", 0), Get(stt, "duration_seconds", 600)))

\* 1. PedagogyAgent._eval_expertise
_eval_expertise(agent, content, stt, vis_ok, con_ok, stt_ok, discourse, disc_ok) ==
    LET wc == Get(stt, "word_count", 0)
        sttAdj ==
            Delta(WpmBin(agent, stt),
                  [GOOD |-> 300, MODERATE |-> 150, SLOW |-> 0, FAST |-> -150,
                   VERY_FAST |-> -300, VERY_SLOW |-> -300])
            + (IF wc > 1200 THEN 300 ELSE IF wc > 800 THEN 200
               ELSE IF wc > 500 THEN 50 ELSE IF wc > 300 THEN -250 ELSE -500)
        speaker_vis == _safe(content, "speaker_visible_ratio", 0)
        conAdj == IF speaker_vis > 800 THEN 100
                  ELSE IF speaker_vis < 300 THEN -100 ELSE 0
        bloom == Get(discourse, "bloom_levels", EmptyItems)
        higher_order == GetIn(bloom, "analyze", 0) + GetIn(bloom, "evaluate", 0)
                        + GetIn(bloom, "create", 0)
        discAdj == IF higher_order > 300 THEN 350
                   ELSE IF higher_order > 150 THEN 200
                   ELSE IF higher_order > 50 THEN 50 ELSE -250
        base == _get_base(agent, "expertise")
                + (IF stt_ok THEN sttAdj ELSE 0)
                + (IF con_ok THEN conAdj ELSE 0)
                + (IF disc_ok THEN discAdj ELSE 0)
        conf == 50 + (IF stt_ok THEN 25 ELSE 0) + (IF con_ok THEN 10 ELSE 0)
                + (IF disc_ok THEN 15 ELSE 0)
    IN _make_score(agent, "expertise", base, Min(100, conf))

\* 2. PedagogyAgent._eval_methods
_eval_methods(agent, content, vision, stt, vis_ok, con_ok, stt_ok, discourse, disc_ok) ==
    LET slide_r == _safe(content, "slide_detected_ratio", 0)
        contrast == _safe(content, "avg_color_contrast", 0)
        conAdj == (IF slide_r > 600 THEN 300 ELSE IF slide_r > 300 THEN 150
                   ELSE IF slide_r < 100 THEN -200 ELSE 0)
                  + (IF contrast > 60 THEN 150 ELSE IF contrast < 20 THEN -100 ELSE 0)
        g_bin == _bin_metric(agent, "gesture_active_ratio",
                             _safe(vision, "gesture_active_ratio", 0))
        motion == _safe(vision, "avg_motion_score", 0)
        visAdj == Delta(g_bin, [ACTIVE |-> 350, MODERATE |-> 150, LOW |-> -50,
                                INACTIVE |-> -200])
                  + (IF motion > 25 THEN 150 ELSE IF motion < 5 THEN -100 ELSE 0)
        sttAdj == Delta(WpmBin(agent, stt),
                        [GOOD |-> 200, MODERATE |-> 200, VERY_SLOW |-> -250])
        qt == Get(discourse, "question_types", EmptyItems)
        total_q == IF SumValues(qt) # 0 THEN SumValues(qt) ELSE 1
        open_ended == GetIn(qt, "open_ended", 0)
        scaffolding == GetIn(qt, "scaffolding", 0)
        discAdj == (IF RatioGT(open_ended, total_q, 4, 10) THEN 250
                    ELSE IF RatioGT(open_ended, total_q, 2, 10) THEN 100
                    ELSE IF RatioLT(open_ended, total_q, 5, 100) THEN -150 ELSE 0)
                   + (IF scaffolding >= 3 THEN 200
                      ELSE IF scaffolding >= 1 THEN 50 ELSE 0)
        base == _get_base(agent, "methods")
                + (IF con_ok THEN conAdj ELSE 0)
                + (IF vis_ok THEN visAdj ELSE 0)
                + (IF stt_ok THEN sttAdj ELSE 0)
                + (IF disc_ok THEN discAdj ELSE 0)
        conf == 50 + (IF con_ok THEN 15 ELSE 0) + (IF vis_ok THEN 15 ELSE 0)
                + (IF stt_ok THEN 10 ELSE 0) + (IF disc_ok THEN 10 ELSE 0)
    IN _make_score(agent, "methods", base, Min(100, conf))

\* '빠름' in pat or 'Fast' in pat, over the patterns the model uses
PatFast(pat) == pat \in {"Fast"}
\* '느림' in pat or 'Slow' in pat
PatSlow(pat) == pat \in {"Slow"}

\* 3. PedagogyAgent._eval_language
_eval_language(agent, content, stt, vibe, stt_ok, vib_ok) ==
    LET fr_bin == _bin_metric(agent, "filler_ratio", Get(stt, "filler_ratio", 30))
        pat == Get(stt, "speaking_pattern", "")
        sttAdj == Delta(fr_bin, [CLEAN |-> 400, GOOD |-> 200, MODERATE |-> 50,
                                 HIGH |-> -200, EXCESSIVE |-> -400])
                  + (IF PatFast(pat) THEN -150 ELSE IF PatSlow(pat) THEN -50 ELSE 0)
        mono_bin == _bin_metric(agent, "monotone_ratio",
                                _safe(vibe, "monotone_ratio", 500))
        vibAdj == Delta(mono_bin, [EXPRESSIVE |-> 300, VARIED |-> 150, MODERATE |-> 0,
                                   MONOTONE |-> -200, FLAT |-> -350])
        base == _get_base(agent, "language")
                + (IF stt_ok THEN sttAdj ELSE 0)
                + (IF vib_ok THEN vibAdj ELSE 0)
        conf == 50 + (IF stt_ok THEN 25 ELSE 0) + (IF vib_ok THEN 25 ELSE 0)
    IN _make_score(agent, "language", base, Min(100, conf))

\* 4. PedagogyAgent._eval_attitude
_eval_attitude(agent, vision, vibe, vis_ok, vib_ok, stt_ok, stt, discourse, disc_ok) ==
    LET ec_bin == _bin_metric(agent, "eye_contact_ratio",
                              _safe(vision, "eye_contact_ratio", 0))
        expr == _safe(vision, "avg_expression_score", 50)
        visAdj == Delta(ec_bin, [EXCELLENT |-> 400, GOOD |-> 300, MODERATE |-> 100,
                                 LOW |-> -100, POOR |-> -300])
                  + (IF expr > 70 THEN 250 ELSE IF expr > 55 THEN 50
                     ELSE IF expr < 30 THEN -200 ELSE 0)
        ed == _safe(vibe, "energy_distribution", EmptyItems)
        high_e == GetIn(ed, "high", 0)
        low_e == GetIn(ed, "low", 0)
        vibAdj == IF DOMAIN ed = {} THEN 0
                  ELSE (IF high_e > 400 THEN 250 ELSE IF high_e > 250 THEN 100 ELSE 0)
                       + (IF low_e > 500 THEN -200 ELSE 0)
        sttAdj == Delta(WpmBin(agent, stt),
                        [GOOD |-> 200, MODERATE |-> 200, VERY_SLOW |-> -200])
        fb == Get(discourse, "feedback_quality", EmptyItems)
        specific_praise == GetIn(fb, "specific_praise", 0)
        corrective == GetIn(fb, "corrective", 0)
        discAdj == (IF specific_praise >= 5 THEN 250
                    ELSE IF specific_praise >= 2 THEN 100 ELSE 0)
                   + (IF corrective >= 3 THEN 150 ELSE 0)
        base == _get_base(agent, "attitude")
                + (IF vis_ok THEN visAdj ELSE 0)
                + (IF vib_ok THEN vibAdj ELSE 0)
                + (IF stt_ok THEN sttAdj ELSE 0)
                + (IF disc_ok THEN discAdj ELSE 0)
        conf == 50 + (IF vis_ok THEN 20 ELSE 0) + (IF vib_ok THEN 10 ELSE 0)
                + (IF stt_ok THEN 10 ELSE 0) + (IF disc_ok THEN 10 ELSE 0)
    IN _make_score(agent, "attitude", base, Min(100, conf))

\* 5. PedagogyAgent._eval_participation
_eval_participation(agent, stt, vibe, stt_ok, vib_ok, discourse, disc_ok) ==
    LET student_turns == Get(stt, "student_turns", 0)
        interaction_count == Get(stt, "interaction_count", 0)
        tr_bin == _bin_metric(agent, "teacher_ratio", Get(stt, "teacher_ratio", 750))
        question_count == Get(stt, "question_count", 0)
        sttAdj == (IF student_turns > 20 THEN 250 ELSE IF student_turns > 10 THEN 150
                   ELSE IF student_turns > 5 THEN 50
                   ELSE IF student_turns > 0 THEN 0 ELSE -400)
                  + (IF interaction_count > 20 THEN 150
                     ELSE IF interaction_count > 10 THEN 50
                     ELSE IF interaction_count < 3 THEN -150 ELSE 0)
                  + Delta(tr_bin, [STUDENT_LED |-> 200, BALANCED |-> 150,
                                   TEACHER_MODERATE |-> 50, TEACHER_DOMINANT |-> -150,
                                   LECTURE_ONLY |-> -400])
                  + (IF question_count > 10 THEN 100
                     ELSE IF question_count = 0 THEN -100 ELSE 0)
        sr == _safe(vibe, "avg_silence_ratio", 300)
        vibAdj == IF 150 <= sr /\ sr <= 300 THEN 50 ELSE IF sr > 450 THEN -100 ELSE 0
        interaction_score == Get(discourse, "interaction_score", 50)
        discAdj == IF interaction_score > 80 THEN 150
                   ELSE IF interaction_score > 65 THEN 50
                   ELSE IF interaction_score < 30 THEN -150 ELSE 0
        base == _get_base(agent, "participation")
                + (IF stt_ok THEN sttAdj ELSE 0)
                + (IF vib_ok THEN vibAdj ELSE 0)
                + (IF disc_ok THEN discAdj ELSE 0)
        conf == 50 + (IF stt_ok THEN 25 ELSE 0) + (IF vib_ok THEN 10 ELSE 0)
                + (IF disc_ok THEN 15 ELSE 0)
    IN _make_score(agent, "participation", base, Min(100, conf))

\* 6. PedagogyAgent._eval_time
_eval_time(agent, vibe, stt, vib_ok, stt_ok) ==
    LET ed == _safe(vibe, "energy_distribution", EmptyItems)
        lo == GetIn(ed, "low", 0)
        no == GetIn(ed, "normal", 0)
        hi == GetIn(ed, "high", 0)
        spread == Max(lo, Max(no, hi)) - Min(lo, Min(no, hi))
        mono_bin == _bin_metric(agent, "monotone_ratio",
                                _safe(vibe, "monotone_ratio", 500))
        vibAdj == (IF DOMAIN ed # {} /\ lo + no + hi > 0
                   THEN (IF spread < 250 THEN 350 ELSE IF spread < 400 THEN 150
                         ELSE IF spread > 650 THEN -250 ELSE 0)
                   ELSE 0)
                  + Delta(mono_bin, [EXPRESSIVE |-> 150, VARIED |-> 150,
                                     MONOTONE |-> -150, FLAT |-> -150])
        dur == Get(stt, "duration_seconds", 600)
        sttAdj == IF 500 <= dur /\ dur <= 900 THEN 100
                  ELSE IF dur > 1200 THEN -200
                  ELSE IF dur < 300 THEN -200 ELSE 0
        base == _get_base(agent, "time")
                + (IF vib_ok THEN vibAdj ELSE 0)
                + (IF stt_ok THEN sttAdj ELSE 0)
        conf == 50 + (IF vib_ok THEN 25 ELSE 0) + (IF stt_ok THEN 25 ELSE 0)
    IN _make_score(agent, "time", base, Min(100, conf))

\* 7. PedagogyAgent._eval_creativity
_eval_creativity(agent, content, vision, stt, vibe, vis_ok, con_ok, stt_ok, vib_ok, discourse, disc_ok) ==
    LET contrast == _safe(content, "avg_color_contrast", 0)
        complexity == _safe(content, "avg_complexity", 0)
        conAdj == (IF contrast > 60 THEN 50 ELSE IF contrast < 15 THEN -40 ELSE 0)
                  + (IF complexity > 10 THEN 40 ELSE IF complexity < 3 THEN -40 ELSE 0)
        motion == _safe(vision, "avg_motion_score", 0)
        openness == _safe(vision, "avg_body_openness", 500)
        g_bin == _bin_metric(agent, "gesture_active_ratio",
                             _safe(vision, "gesture_active_ratio", 0))
        visAdj == (IF motion > 30 THEN 80 ELSE IF motion > 15 THEN 40
                   ELSE IF motion < 3 THEN -60 ELSE 0)
                  + (IF openness > 750 THEN 60 ELSE IF openness < 300 THEN -40 ELSE 0)
                  + Delta(g_bin, [ACTIVE |-> 70, MODERATE |-> 30, INACTIVE |-> -60])
        wc == Get(stt, "word_count", 0)
        sc == Get(stt, "segment_count", 1)
        sttAdj == IF sc > 100 /\ wc > 800 THEN 50
                  ELSE IF sc > 60 /\ wc > 500 THEN 20
                  ELSE IF wc < 300 THEN -50 ELSE 0
        bloom == Get(discourse, "bloom_levels", EmptyItems)
        create_level == GetIn(bloom, "create", 0)
        analyze_level == GetIn(bloom, "analyze", 0)
        scaffolding == GetIn(Get(discourse, "question_types", EmptyItems),
                             "scaffolding", 0)
        remember == GetIn(bloom, "remember", 0)
        discAdj == (IF create_level > 100 THEN 80
                    ELSE IF create_level > 30 THEN 40 ELSE 0)
                   + (IF analyze_level > 150 THEN 40 ELSE 0)
                   + (IF scaffolding >= 3 THEN 50 ELSE IF scaffolding >= 1 THEN 20 ELSE 0)
                   + (IF remember > 700 THEN -70 ELSE 0)
        base == _get_base(agent, "creativity")
                + (IF con_ok THEN conAdj ELSE 0)
                + (IF vis_ok THEN visAdj ELSE 0)
                + (IF stt_ok THEN sttAdj ELSE 0)
                + (IF disc_ok THEN discAdj ELSE 0)
        conf == 50 + (IF con_ok THEN 10 ELSE 0) + (IF vis_ok THEN 15 ELSE 0)
                + (IF stt_ok THEN 10 ELSE 0) + (IF disc_ok THEN 15 ELSE 0)
    IN _make_score(agent, "creativity", base, Min(100, conf))

\* the availability checks of evaluate
VisOk(vision_summary) == Truthy(vision_summary) /\ ~Has(vision_summary, "error")
ConOk(content_summary) == Truthy(content_summary) /\ ~Has(content_summary, "error")
\* the vibe check as `vibe_summary is not None`
VibOkNotNone(vibe_summary) == vibe_summary.py = "dict"
VibOk(vibe_summary) == Truthy(vibe_summary)
\* the stt check on 'duration_seconds' instead of 'word_count'
SttOkDuration(stt) == Truthy(stt) /\ Has(stt, "duration_seconds")

SttOk(stt) == Truthy(stt) /\ Has(stt, "word_count")
DiscOk(discourse) == Truthy(discourse) /\ Has(discourse, "question_types")

\* _grade returning the grade of the first threshold above the total
_grade_exclusive(agent, total) ==
    LET passed == {g \in DOMAIN agent.grading : total > 100 * agent.grading[g]}
    IN IF passed = {} THEN "D"
       ELSE GradeLabel[CHOOSE g \in passed :
                          \A h \in passed : agent.grading[h] <= agent.grading[g]]

\* PedagogyAgent._grade: the thresholds from the highest down, the first one
\* the total reaches; total in hundredths
_grade(agent, total) ==
    LET passed == {g \in DOMAIN agent.grading : total >= 100 * agent.grading[g]}
    IN IF passed = {} THEN "D"
       ELSE GradeLabel[CHOOSE g \in passed :
                          \A h \in passed : agent.grading[h] <= agent.grading[g]]

\* the strengths as the dimensions above 80 percent
StrengthsAbove(dimensions) ==
    LET idx == SelectSeq([i \in 1..Len(dimensions) |-> i],
                         LAMBDA i : dimensions[i].percentage > 80000)
    IN [k \in 1..Len(idx) |-> dimensions[idx[k]].name]

\* the total leaving out the last dimension
TotalButLast(dimensions) ==
    SumSeq([i \in 1..(Len(dimensions) - 1) |-> dimensions[i].score])

\* sum(d.score for d in dimensions)
Total(dimensions) == SumSeq([i \in 1..Len(dimensions) |-> dimensions[i].score])

\* [d.name for d in dimensions if d.percentage >= 80]
Strengths(dimensions) ==
    LET idx == SelectSeq([i \in 1..Len(dimensions) |-> i],
                         LAMBDA i : dimensions[i].percentage >= 80000)
    IN [k \in 1..Len(idx) |-> dimensions[idx[k]].name]

\* [d.name for d in dimensions if d.percentage < 60]
Improvements(dimensions) ==
    LET idx == SelectSeq([i \in 1..Len(dimensions) |-> i],
                         LAMBDA i : dimensions[i].percentage < 60000)
    IN [k \in 1..Len(idx) |-> dimensions[idx[k]].name]

\* {d.name: d.score for d in dimensions}: a later entry of a name replaces an
\* earlier one
DimensionScores(dimensions) ==
    [n \in {dimensions[i].name : i \in 1..Len(dimensions)} |->
        LET last == CHOOSE i \in 1..Len(dimensions) :
                        /\ dimensions[i].name = n
                        /\ \A j \in (i + 1)..Len(dimensions) : dimensions[j].name # n
        IN dimensions[last].score]

\* max(dimensions, key=lambda d: d.percentage): the first of the largest
MaxByPercentage(dimensions) ==
    LET i == CHOOSE i \in 1..Len(dimensions) :
                 /\ \A j \in 1..Len(dimensions) :
                       dimensions[j].percentage <= dimensions[i].percentage
                 /\ \A j \in 1..(i - 1) :
                       dimensions[j].percentage < dimensions[i].percentage
    IN dimensions[i]

\* min(dimensions, key=lambda d: d.percentage): the first of the smallest
MinByPercentage(dimensions) ==
    LET i == CHOOSE i \in 1..Len(dimensions) :
                 /\ \A j \in 1..Len(dimensions) :
                       dimensions[j].percentage >= dimensions[i].percentage
                 /\ \A j \in 1..(i - 1) :
                       dimensions[j].percentage > dimensions[i].percentage
    IN dimensions[i]

\* PedagogyAgent.evaluate: total_score, grade, the 7 dimensions, the profile
\* summary and the confidence
evaluate(agent, vision_summary, content_summary, vibe_summary, stt_result, discourse_result) ==
    LET stt == OrEmpty(stt_result)
        discourse == OrEmpty(discourse_result)
        vis_ok == VisOk(vision_summary)
        con_ok == ConOk(content_summary)
        vib_ok == VibOk(vibe_summary)
        stt_ok == SttOk(stt)
        disc_ok == DiscOk(discourse)
        dimensions ==
            << _eval_expertise(agent, content_summary, stt, vis_ok, con_ok, stt_ok,
                               discourse, disc_ok),
               _eval_methods(agent, content_summary, vision_summary, stt, vis_ok,
                             con_ok, stt_ok, discourse, disc_ok),
               _eval_language(agent, content_summary, stt, vibe_summary, stt_ok, vib_ok),
               _eval_attitude(agent, vision_summary, vibe_summary, vis_ok, vib_ok,
                              stt_ok, stt, discourse, disc_ok),
               _eval_participation(agent, stt, vibe_summary, stt_ok, vib_ok,
                                   discourse, disc_ok),
               _eval_time(agent, vibe_summary, stt, vib_ok, stt_ok),
               _eval_creativity(agent, content_summary, vision_summary, stt,
                                vibe_summary, vis_ok, con_ok, stt_ok, vib_ok,
                                discourse, disc_ok) >>
        total == Total(dimensions)
    IN [py |-> "dict",
        total_score |-> Round1(total),
        grade |-> _grade(agent, total),
        dimensions |-> dimensions,
        dimension_scores |-> DimensionScores(dimensions),
        profile_summary |->
            [strengths |-> Strengths(dimensions),
             improvements |-> Improvements(dimensions),
             top_dimension |-> IF dimensions # <<>>
                               THEN MaxByPercentage(dimensions).name ELSE "",
             weakest_dimension |-> IF dimensions # <<>>
                                   THEN MinByPercentage(dimensions).name ELSE ""],
        preset_used |-> agent.preset,
        continuous_scoring |-> agent.continuous_scoring,
        confidence |-> _compute_confidence(agent, vis_ok, con_ok, stt_ok, vib_ok,
                                           disc_ok)]

-----------------------------------------------------------------------------
(* The analyzer summaries the model feeds to evaluate: the profiles of      *)
(* tests/test_pedagogy_v7.py and out-of-range, partial and failed ones.     *)

\* d with an "error" key added, as an analyzer that failed half-way leaves it
WithError(d) ==
    Dict([k \in DOMAIN d.items \cup {"error"} |->
            IF k = "error" THEN "failed" ELSE d.items[k]])
ErrorOnly == Dict([error |-> "failed"])

VIS_GOOD == Dict([gesture_active_ratio |-> 650, avg_gesture_score |-> 700,
                  eye_contact_ratio |-> 750, face_detection_ratio |-> 900,
                  avg_expression_score |-> 72, avg_body_openness |-> 800,
                  avg_motion_score |-> 28])
VIS_BAD == Dict([gesture_active_ratio |-> 50, avg_gesture_score |-> 100,
                 eye_contact_ratio |-> 80, face_detection_ratio |-> 600,
                 avg_expression_score |-> 20, avg_body_openness |-> 200,
                 avg_motion_score |-> 2])
\* every metric far out of its range
VIS_EXTREME == Dict([gesture_active_ratio |-> 5000, eye_contact_ratio |-> -1000,
                     avg_expression_score |-> 1000, avg_body_openness |-> 9000,
                     avg_motion_score |-> 700])

CON_GOOD == Dict([slide_detected_ratio |-> 700, speaker_visible_ratio |-> 850,
                  avg_color_contrast |-> 70, avg_complexity |-> 14])
CON_BAD == Dict([slide_detected_ratio |-> 50, speaker_visible_ratio |-> 200,
                 avg_color_contrast |-> 8, avg_complexity |-> 1])
CON_EXTREME == Dict([slide_detected_ratio |-> 4000, speaker_visible_ratio |-> -300,
                     avg_color_contrast |-> 900, avg_complexity |-> -5])

VIBE_GOOD == Dict([avg_silence_ratio |-> 220, monotone_ratio |-> 120,
                   energy_distribution |-> [low |-> 150, normal |-> 500, high |-> 350]])
VIBE_BAD == Dict([avg_silence_ratio |-> 600, monotone_ratio |-> 750,
                  energy_distribution |-> [low |-> 700, normal |-> 250, high |-> 50]])
VIBE_EXTREME == Dict([avg_silence_ratio |-> -400, monotone_ratio |-> -100,
                      energy_distribution |-> [low |-> 100, normal |-> 120, high |-> 3000]])
\* a summary without the energy distribution
VIBE_PARTIAL == Dict([avg_silence_ratio |-> 220, monotone_ratio |-> 280])

STT_GOOD == Dict([word_count |-> 1300, duration_seconds |-> 600, speaking_rate |-> 130,
                  filler_ratio |-> 10, speaking_pattern |-> "Conversational",
                  segment_count |-> 120, student_turns |-> 15, interaction_count |-> 18,
                  teacher_ratio |-> 620, question_count |-> 12])
STT_BAD == Dict([word_count |-> 180, duration_seconds |-> 600, speaking_rate |-> 18,
                 filler_ratio |-> 90, speaking_pattern |-> "Slow",
                 segment_count |-> 12, student_turns |-> 0, interaction_count |-> 0,
                 teacher_ratio |-> 980, question_count |-> 0])
\* word_count = -1 and filler_ratio = 5.0, with a lively class
STT_EXTREME == Dict([word_count |-> -1, duration_seconds |-> 600,
                     filler_ratio |-> 5000, speaking_pattern |-> "Fast",
                     segment_count |-> 500, student_turns |-> 900,
                     interaction_count |-> 900, teacher_ratio |-> -2000,
                     question_count |-> 900])
\* a long transcript over a zero duration
STT_ZERO_DUR == Dict([word_count |-> 100000, duration_seconds |-> 0,
                      filler_ratio |-> 0, speaking_pattern |-> "",
                      segment_count |-> 500, student_turns |-> 25,
                      interaction_count |-> 25, teacher_ratio |-> 100,
                      question_count |-> 11])
\* only the key that makes stt available
STT_MIN == Dict([word_count |-> 900])

DISC_GOOD == Dict([question_types |-> [open_ended |-> 8, closed |-> 4,
                                       scaffolding |-> 5, rhetorical |-> 1],
                   feedback_quality |-> [specific_praise |-> 7, corrective |-> 4,
                                         generic |-> 1],
                   bloom_levels |-> [remember |-> 100, understand |-> 200, apply |-> 200,
                                     analyze |-> 200, evaluate |-> 150, create |-> 150],
                   interaction_score |-> 88])
DISC_BAD == Dict([question_types |-> [open_ended |-> 0, closed |-> 1,
                                      scaffolding |-> 0, rhetorical |-> 0],
                  feedback_quality |-> [specific_praise |-> 0, corrective |-> 0,
                                        generic |-> 1],
                  bloom_levels |-> [remember |-> 850, understand |-> 100, apply |-> 50,
                                    analyze |-> 0, evaluate |-> 0, create |-> 0],
                  interaction_score |-> 15])
\* counts whose sum is negative, proportions above 1
DISC_EXTREME == Dict([question_types |-> [open_ended |-> 7, closed |-> -9,
                                          scaffolding |-> 40, rhetorical |-> 0],
                      feedback_quality |-> [specific_praise |-> 500, corrective |-> 500],
                      bloom_levels |-> [remember |-> 0, analyze |-> 4000,
                                        evaluate |-> 4000, create |-> 4000],
                      interaction_score |-> 1000])

VisionInputs == {None, EmptyDict, VIS_GOOD, VIS_BAD, WithError(VIS_GOOD), VIS_EXTREME}
ContentInputs == {EmptyDict, CON_GOOD, CON_BAD, ErrorOnly, CON_EXTREME}
VibeInputs == {EmptyDict, ErrorOnly, VIBE_GOOD, VIBE_BAD, VIBE_EXTREME, VIBE_PARTIAL}
SttInputs == {None, EmptyDict, STT_GOOD, STT_BAD, WithError(STT_GOOD), STT_EXTREME,
              STT_ZERO_DUR, STT_MIN}
DiscourseInputs == {None, EmptyDict, DISC_GOOD, DISC_BAD, WithError(DISC_GOOD),
                    DISC_EXTREME}

\* float(os.getenv("GAIM_SIGMOID_STEEPNESS", "10.0")) with the variable unset
DefaultSteepness == 10

\* how many evaluate calls the scorer's runs make
MaxCalls == 2
\* how many events the log of the pipeline's runs holds (one run emits up to 19)
MaxLog == 21
\* how many callbacks on_event registers
MaxCallbacks == 2

-----------------------------------------------------------------------------
(* The scorer as a state machine: one argument tuple, evaluated repeatedly  *)
(* by the current instance and by freshly constructed ones.                 *)

Args == [vision : VisionInputs, content : ContentInputs, vibe : VibeInputs,
         stt : SttInputs, discourse : DiscourseInputs]

\* agent.evaluate(args) by the current instance
EvaluateCall(agent, a) ==
    evaluate(agent, a.vision, a.content, a.vibe, a.stt, a.discourse)

\* PedagogyAgent(continuous_scoring=...): a fresh instance, same configuration,
\* constructed once the current one has made a call
Construct ==
    /\ instances <= Len(history)
    /\ Len(history) < MaxCalls
    /\ self' = PedagogyAgentNew(self.preset, self.continuous_scoring, DefaultSteepness)
    /\ instances' = instances + 1
    /\ UNCHANGED <<args, history, orcVars>>

\* self.evaluate(vision, content, vibe, stt, discourse)
Evaluate ==
    /\ Len(history) < MaxCalls
    /\ history' = Append(history, [instance |-> instances,
                                   value |-> EvaluateCall(self, args)])
    /\ UNCHANGED <<self, instances, args, orcVars>>

-----------------------------------------------------------------------------
(* AgentOrchestrator.  Times and identifiers are modelled by whether they   *)
(* are set; an event's data dict by the set of its keys; a transcript by    *)
(* its length.                                                              *)

\* _register_agents: the eight registered agents
AgentNames == {"extractor", "vision", "content", "stt", "vibe",
               "pedagogy", "feedback", "master"}

\* the four agents submitted to the thread pool
ParallelAgents == {"vision", "content", "stt", "vibe"}

\* AgentStatus values
AgentStatus == {"idle", "running", "done", "error", "skipped"}

\* AgentState(name, role, icon, dependencies): the dataclass defaults
AgentState == [status |-> "idle", progress |-> 0, start_time |-> FALSE,
               end_time |-> FALSE, result |-> None, error |-> "None"]

\* _register_agents: the dependencies each agent is registered with
Dependencies ==
    [extractor |-> <<>>,
     vision |-> <<"extractor">>, content |-> <<"extractor">>,
     stt |-> <<"extractor">>, vibe |-> <<"extractor">>,
     pedagogy |-> <<"vision", "content", "stt", "vibe">>,
     feedback |-> <<"pedagogy">>,
     master |-> <<"vision", "content", "vibe", "pedagogy", "feedback">>]

\* AgentState(name=name, role=role, icon=icon, dependencies=deps)
Registered(name) ==
    [status |-> AgentState.status, progress |-> AgentState.progress,
     start_time |-> AgentState.start_time, end_time |-> AgentState.end_time,
     result |-> AgentState.result, error |-> AgentState.error,
     dependencies |-> Dependencies[name]]

\* SharedContext(video_path=..., temp_dir=...)
SharedContext(video_path, temp_dir) ==
    [video_path |-> video_path, temp_dir |-> temp_dir,
     extracted_frames |-> FALSE, audio_path |-> FALSE,
     vision_summary |-> EmptyDict, vision_timeline |-> FALSE,
     content_summary |-> EmptyDict, content_timeline |-> FALSE,
     stt_result |-> EmptyDict,
     vibe_summary |-> EmptyDict, vibe_timeline |-> FALSE,
     discourse_result |-> EmptyDict, pedagogy_result |-> EmptyDict,
     feedback_result |-> EmptyDict, master_report |-> EmptyDict]

\* a status that ends an agent's run
Terminal(a) == agents[a].status \in {"done", "error"}

\* the event-log bound of the model: _emit is taken only while there is room
LogRoom == Len(event_log) < MaxLog

\* the threads of a run: the caller of run_pipeline and the pool's four workers
Threads == {"main"} \cup ParallelAgents

\* the thread that emits the events naming an agent (or the orchestrator)
ThreadOf(agent_name) == IF agent_name \in ParallelAgents THEN agent_name ELSE "main"

\* no event awaits its callbacks
NoEvent == [type |-> "none", agent |-> "none", data |-> {}]

\* the thread is not inside the callback loop of an _emit
Quiet(t) == pending[t] = NoEvent

\* _emit lines 205-207: with callbacks registered the emitting thread goes on to
\* call them with the event
AwaitCallbacks(event) ==
    IF _callbacks = 0 THEN pending
    ELSE [pending EXCEPT ![ThreadOf(event.agent)] = event]

\* _emit writing the event into the last slot of the log instead of appending
_emit_overwrite(event_type, agent_name, data) ==
    /\ event_log' = IF event_log = <<>>
                    THEN <<[type |-> event_type, agent |-> agent_name, data |-> data]>>
                    ELSE [event_log EXCEPT ![Len(event_log)] =
                             [type |-> event_type, agent |-> agent_name, data |-> data]]
    /\ emits' = emits + 1
    /\ pending' = AwaitCallbacks([type |-> event_type, agent |-> agent_name,
                                  data |-> data])

\* _emit lines 199-206: the event is appended under the lock
_emit(event_type, agent_name, data) ==
    /\ event_log' = Append(event_log, [type |-> event_type, agent |-> agent_name,
                                       data |-> data])
    /\ emits' = emits + 1
    /\ pending' = AwaitCallbacks([type |-> event_type, agent |-> agent_name,
                                  data |-> data])

\* ContentAgent.get_summary: an error dict when no frame was analysed
ContentGetSummary(frames) == IF frames THEN CON_GOOD ELSE ErrorOnly

\* VisionAgent.get_summary (the agent is outside src): as ContentAgent's
VisionGetSummary(frames) == IF frames THEN VIS_GOOD ELSE ErrorOnly

\* STTAgent.analyze / analyze_from_video: the metrics and a long transcript
SttAnalyze == Dict([k \in DOMAIN STT_GOOD.items \cup {"transcript"} |->
                       IF k = "transcript" THEN 250 ELSE STT_GOOD.items[k]])

\* the phase function of each agent: the context it leaves when it returns
_phase_extract(ctx) ==
    [ctx EXCEPT !.temp_dir = TRUE, !.extracted_frames = TRUE, !.audio_path = TRUE]

_phase_vision(ctx) ==
    [ctx EXCEPT !.vision_summary = VisionGetSummary(ctx.extracted_frames),
                !.vision_timeline = ctx.extracted_frames]

_phase_content(ctx) ==
    [ctx EXCEPT !.content_summary = ContentGetSummary(ctx.extracted_frames),
                !.content_timeline = ctx.extracted_frames]

_phase_stt(ctx) == [ctx EXCEPT !.stt_result = SttAnalyze]

\* _phase_vibe assigning the speech result as well
_phase_vibe_clobbering(ctx) ==
    IF ctx.audio_path
    THEN [ctx EXCEPT !.vibe_summary = VIBE_GOOD, !.vibe_timeline = TRUE,
                     !.stt_result = EmptyDict]
    ELSE ctx

_phase_vibe(ctx) ==
    IF ctx.audio_path
    THEN [ctx EXCEPT !.vibe_summary = VIBE_GOOD, !.vibe_timeline = TRUE]
    ELSE ctx

_phase_pedagogy(ctx) ==
    [ctx EXCEPT !.pedagogy_result =
        evaluate(PedagogyAgentNew("default", FALSE, DefaultSteepness),
                 ctx.vision_summary, ctx.content_summary, ctx.vibe_summary,
                 ctx.stt_result, ctx.discourse_result)]

_phase_feedback(ctx) ==
    [ctx EXCEPT !.feedback_result =
        Dict([total_score |-> GetIn(ctx.pedagogy_result, "total_score", 0)])]

_phase_synthesize(ctx) ==
    [ctx EXCEPT !.master_report =
        Dict([pedagogy |-> ctx.pedagogy_result, feedback |-> ctx.feedback_result,
              stt |-> ctx.stt_result, discourse |-> ctx.discourse_result,
              vision_summary |-> ctx.vision_summary,
              content_summary |-> ctx.content_summary,
              vibe_summary |-> ctx.vibe_summary])]

\* the self.context fields the phase function of a pool agent reads
ContextReads(a, ctx) ==
    CASE a = "vision"  -> {"extracted_frames", "vision_summary"}
      [] a = "content" -> {"extracted_frames", "content_summary"}
      [] a = "stt"     -> IF ctx.audio_path THEN {"audio_path"}
                          ELSE {"audio_path", "video_path"}
      [] a = "vibe"    -> {"audio_path", "vibe_summary"}

\* the self.context fields the phase function of a pool agent assigns
ContextWrites(a, ctx) ==
    CASE a = "vision"  -> {"vision_summary", "vision_timeline"}
      [] a = "content" -> {"content_summary", "content_timeline"}
      [] a = "stt"     -> {"stt_result"}
      [] a = "vibe"    -> IF ctx.audio_path THEN {"vibe_summary", "vibe_timeline"}
                          ELSE {}

\* no pool agent has touched the context
NoAccess == [a \in ParallelAgents |-> [reads |-> {}, writes |-> {}]]

\* the accesses after the phase function of a has run to its return (or, raising
\* before its assignments, has read what it reads first)
Accessed(a, ctx, returns) ==
    IF a \notin ParallelAgents THEN access
    ELSE [access EXCEPT ![a] =
             IF returns THEN [reads |-> ContextReads(a, ctx),
                              writes |-> ContextWrites(a, ctx)]
             ELSE [reads |-> ContextReads(a, ctx) \ ContextWrites(a, ctx),
                   writes |-> {}]]

\* fn(*args) of _run_agent, by agent name
Phase(a, ctx) ==
    CASE a = "extractor" -> _phase_extract(ctx)
      [] a = "vision"    -> _phase_vision(ctx)
      [] a = "content"   -> _phase_content(ctx)
      [] a = "stt"       -> _phase_stt(ctx)
      [] a = "vibe"      -> _phase_vibe(ctx)
      [] a = "pedagogy"  -> _phase_pedagogy(ctx)
      [] a = "feedback"  -> _phase_feedback(ctx)
      [] a = "master"    -> _phase_synthesize(ctx)

\* the value the phase function returned, read back from the context
PhaseResult(a, ctx) ==
    CASE a = "extractor" -> Dict([frames_count |-> ctx.extracted_frames,
                                  audio_extracted |-> ctx.audio_path,
                                  temp_dir |-> ctx.temp_dir])
      [] a = "vision"    -> ctx.vision_summary
      [] a = "content"   -> ctx.content_summary
      [] a = "stt"       -> ctx.stt_result
      [] a = "vibe"      -> ctx.vibe_summary
      [] a = "pedagogy"  -> ctx.pedagogy_result
      [] a = "feedback"  -> ctx.feedback_result
      [] a = "master"    -> ctx.master_report

-----------------------------------------------------------------------------
(* run_pipeline, one action per step of the calling thread and of each      *)
(* _run_agent call.                                                         *)

\* run_pipeline lines 248-252: identifiers, a fresh context, pipeline_start
RunPipelineStart ==
    /\ main \in {"idle", "returned"}
    /\ Quiet("main")
    /\ LogRoom
    /\ pipeline_id' = TRUE
    /\ context' = SharedContext(TRUE, FALSE)
    /\ _emit("pipeline_start", "orchestrator", {"video"})
    /\ main' = "extract"
    /\ worker' = [a \in AgentNames |-> IF a = "extractor" THEN "ready" ELSE "none"]
    /\ outcome' = [a \in AgentNames |-> "none"]
    /\ returned' = None
    /\ saves' = <<>>
    /\ access' = NoAccess
    /\ UNCHANGED <<agents, pipeline_end, entered, observed, pedVars,
                   _callbacks, delivered, swallowed>>

\* _run_agent lines 215-218: the agent becomes running
RunAgentBegin(a) ==
    /\ worker[a] = "ready"
    /\ Quiet(ThreadOf(a))
    /\ agents' = [agents EXCEPT ![a].status = "running", ![a].start_time = TRUE,
                                ![a].progress = 0]
    /\ entered' = [entered EXCEPT ![a].running = @ + 1]
    /\ worker' = [worker EXCEPT ![a] = "started"]
    /\ UNCHANGED <<context, event_log, pipeline_end, pipeline_id, main, outcome,
                   returned, emits, saves, observed, pedVars,
                   cbVars, access>>

\* _run_agent line 219
EmitAgentStart(a) ==
    /\ worker[a] = "started"
    /\ Quiet(ThreadOf(a))
    /\ LogRoom
    /\ _emit("agent_start", a, {})
    /\ worker' = [worker EXCEPT ![a] = "emitted"]
    /\ UNCHANGED <<agents, context, pipeline_end, pipeline_id, main, outcome,
                   returned, entered, saves, observed, pedVars,
                   _callbacks, delivered, swallowed, access>>

\* the position from which the phase function's own work is done
PhasePoint(a) == IF a = "pedagogy" THEN "discoursed" ELSE "emitted"

\* _run_agent line 222, fn returns: the phase function has written the context
PhaseReturn(a) ==
    /\ worker[a] = PhasePoint(a)
    /\ Quiet(ThreadOf(a))
    /\ context' = Phase(a, context)
    /\ access' = Accessed(a, context, TRUE)
    /\ outcome' = [outcome EXCEPT ![a] = "ok"]
    /\ worker' = [worker EXCEPT ![a] = "called"]
    /\ UNCHANGED <<agents, event_log, pipeline_end, pipeline_id, main, returned,
                   emits, entered, saves, observed, pedVars,
                   cbVars>>

\* _run_agent line 222, fn raises Exception: before it writes its results
\* (_phase_extract has set temp_dir when flash_extract_resources raises)
PhaseRaise(a) ==
    /\ worker[a] = PhasePoint(a)
    /\ Quiet(ThreadOf(a))
    /\ \E loaded \in BOOLEAN :
          context' = IF a = "extractor" /\ loaded
                     THEN [context EXCEPT !.temp_dir = TRUE]
                     ELSE context
    /\ access' = Accessed(a, context, FALSE)
    /\ outcome' = [outcome EXCEPT ![a] = "raise"]
    /\ worker' = [worker EXCEPT ![a] = "called"]
    /\ UNCHANGED <<agents, event_log, pipeline_end, pipeline_id, main, returned,
                   emits, entered, saves, observed, pedVars,
                   cbVars>>

\* _run_agent lines 223-226
MarkDone(a) ==
    /\ worker[a] = "called"
    /\ Quiet(ThreadOf(a))
    /\ outcome[a] = "ok"
    /\ agents' = [agents EXCEPT ![a].status = "done", ![a].progress = 100,
                                ![a].result = PhaseResult(a, context),
                                ![a].end_time = TRUE]
    /\ entered' = [entered EXCEPT ![a].done = @ + 1]
    /\ worker' = [worker EXCEPT ![a] = "marked"]
    /\ UNCHANGED <<context, event_log, pipeline_end, pipeline_id, main, outcome,
                   returned, emits, saves, observed, pedVars,
                   cbVars, access>>

\* _run_agent without its except clause: the exception of the phase function
\* leaves _run_agent and ends run_pipeline
MarkErrorUncaught(a) ==
    /\ worker[a] = "called"
    /\ Quiet(ThreadOf(a))
    /\ outcome[a] = "raise"
    /\ main' = "returned"
    /\ returned' = None
    /\ worker' = [worker EXCEPT ![a] = "finished"]
    /\ UNCHANGED <<agents, context, event_log, pipeline_end, pipeline_id, outcome,
                   emits, entered, saves, observed, pedVars, cbVars, access>>

\* _run_agent lines 230-232
MarkError(a) ==
    /\ worker[a] = "called"
    /\ Quiet(ThreadOf(a))
    /\ outcome[a] = "raise"
    /\ agents' = [agents EXCEPT ![a].status = "error", ![a].error = "Exception",
                                ![a].end_time = TRUE]
    /\ entered' = [entered EXCEPT ![a].error = @ + 1]
    /\ worker' = [worker EXCEPT ![a] = "marked"]
    /\ UNCHANGED <<context, event_log, pipeline_end, pipeline_id, main, outcome,
                   returned, emits, saves, observed, pedVars,
                   cbVars, access>>

\* _run_agent line 227
EmitAgentDone(a) ==
    /\ worker[a] = "marked"
    /\ Quiet(ThreadOf(a))
    /\ outcome[a] = "ok"
    /\ LogRoom
    /\ _emit("agent_done", a, {"elapsed"})
    /\ worker' = [worker EXCEPT ![a] = "finished"]
    /\ UNCHANGED <<agents, context, pipeline_end, pipeline_id, main, outcome,
                   returned, entered, saves, observed, pedVars,
                   _callbacks, delivered, swallowed, access>>

\* _run_agent line 233
EmitAgentError(a) ==
    /\ worker[a] = "marked"
    /\ Quiet(ThreadOf(a))
    /\ outcome[a] = "raise"
    /\ LogRoom
    /\ _emit("agent_error", a, {"error", "traceback"})
    /\ worker' = [worker EXCEPT ![a] = "finished"]
    /\ UNCHANGED <<agents, context, pipeline_end, pipeline_id, main, outcome,
                   returned, entered, saves, observed, pedVars,
                   _callbacks, delivered, swallowed, access>>

\* run_pipeline lines 258-264: the extractor call has returned, the four are submitted
SubmitPool ==
    /\ main = "extract"
    /\ Quiet("main")
    /\ worker["extractor"] = "finished"
    /\ main' = "pool"
    /\ worker' = [a \in AgentNames |-> IF a \in ParallelAgents THEN "ready" ELSE worker[a]]
    /\ UNCHANGED <<agents, context, event_log, pipeline_end, pipeline_id, outcome,
                   returned, emits, entered, saves, observed, pedVars,
                   cbVars, access>>

\* the join leaving the pool as soon as one future has completed
PoolJoinFirstCompleted ==
    /\ main = "pool"
    /\ Quiet("main")
    /\ \E a \in ParallelAgents : worker[a] = "finished"
    /\ main' = "pedagogy"
    /\ worker' = [worker EXCEPT !["pedagogy"] = "ready"]
    /\ UNCHANGED <<agents, context, event_log, pipeline_end, pipeline_id, outcome,
                   returned, emits, entered, saves, observed, pedVars,
                   cbVars, access>>

\* run_pipeline lines 265-273: every future has completed (_run_agent caught the
\* exceptions, so future.result() raises nothing), the pool shuts down, and
\* _run_agent("pedagogy") is called
PoolJoin ==
    /\ main = "pool"
    /\ Quiet("main")
    /\ \A a \in ParallelAgents : worker[a] = "finished" /\ Quiet(a)
    /\ main' = "pedagogy"
    /\ worker' = [worker EXCEPT !["pedagogy"] = "ready"]
    /\ UNCHANGED <<agents, context, event_log, pipeline_end, pipeline_id, outcome,
                   returned, emits, entered, saves, observed, pedVars,
                   cbVars, access>>

\* _run_discourse_analysis lines 422-435: the analyzer runs on a long transcript
DiscourseAnalyze ==
    /\ worker["pedagogy"] = "emitted"
    /\ Quiet("main")
    /\ LET stt == OrEmpty(context.stt_result)
           transcript == Get(stt, "transcript", 0)
       IN IF transcript > 20
          THEN /\ LogRoom
               /\ context' = [context EXCEPT !.discourse_result = DISC_GOOD]
               /\ _emit("agent_done", "discourse", {"method"})
          ELSE UNCHANGED <<context, event_log, emits, pending>>
    /\ worker' = [worker EXCEPT !["pedagogy"] = "discoursed"]
    /\ UNCHANGED <<agents, pipeline_end, pipeline_id, main, outcome, returned,
                   entered, saves, observed, pedVars,
                   _callbacks, delivered, swallowed, access>>

\* _run_discourse_analysis lines 436-438: loading or running the analyzer raised
DiscourseRaise ==
    /\ worker["pedagogy"] = "emitted"
    /\ Quiet("main")
    /\ LogRoom
    /\ _emit("agent_error", "discourse", {"error"})
    /\ context' = [context EXCEPT !.discourse_result = EmptyDict]
    /\ worker' = [worker EXCEPT !["pedagogy"] = "discoursed"]
    /\ UNCHANGED <<agents, pipeline_end, pipeline_id, main, outcome, returned,
                   entered, saves, observed, pedVars,
                   _callbacks, delivered, swallowed, access>>

\* _run_agent("feedback") called without waiting for _run_agent("pedagogy")
CallFeedbackEarly ==
    /\ main = "pedagogy"
    /\ Quiet("main")
    /\ worker["feedback"] = "none"
    /\ main' = "pedagogy"
    /\ worker' = [worker EXCEPT !["feedback"] = "ready"]
    /\ UNCHANGED <<agents, context, event_log, pipeline_end, pipeline_id, outcome,
                   returned, emits, entered, saves, observed, pedVars,
                   cbVars, access>>

\* run_pipeline line 276
CallFeedback ==
    /\ main = "pedagogy"
    /\ Quiet("main")
    /\ worker["pedagogy"] = "finished"
    /\ main' = "feedback"
    /\ worker' = [worker EXCEPT !["feedback"] = "ready"]
    /\ UNCHANGED <<agents, context, event_log, pipeline_end, pipeline_id, outcome,
                   returned, emits, entered, saves, observed, pedVars,
                   cbVars, access>>

\* run_pipeline line 279
CallSynthesize ==
    /\ main = "feedback"
    /\ Quiet("main")
    /\ worker["feedback"] = "finished"
    /\ main' = "master"
    /\ worker' = [worker EXCEPT !["master"] = "ready"]
    /\ UNCHANGED <<agents, context, event_log, pipeline_end, pipeline_id, outcome,
                   returned, emits, entered, saves, observed, pedVars,
                   cbVars, access>>

\* one assignment to a field of self.agents[a] in _run_agent, which takes no lock
FieldWrite(a, from, to, agent) ==
    /\ worker[a] = from
    /\ Quiet(ThreadOf(a))
    /\ agents' = [agents EXCEPT ![a] = agent]
    /\ worker' = [worker EXCEPT ![a] = to]
    /\ UNCHANGED <<context, event_log, pipeline_end, pipeline_id, main, outcome,
                   returned, emits, saves, observed, pedVars, cbVars, access>>

\* _run_agent line 216
WriteRunning(a) ==
    /\ FieldWrite(a, "ready", "w_running", [agents[a] EXCEPT !.status = "running"])
    /\ entered' = [entered EXCEPT ![a].running = @ + 1]

\* _run_agent line 217
WriteStartTime(a) ==
    /\ FieldWrite(a, "w_running", "w_start_time", [agents[a] EXCEPT !.start_time = TRUE])
    /\ UNCHANGED entered

\* _run_agent line 218
WriteProgressZero(a) ==
    /\ FieldWrite(a, "w_start_time", "started", [agents[a] EXCEPT !.progress = 0])
    /\ UNCHANGED entered

\* _run_agent line 223
WriteDone(a) ==
    /\ outcome[a] = "ok"
    /\ FieldWrite(a, "called", "w_done", [agents[a] EXCEPT !.status = "done"])
    /\ entered' = [entered EXCEPT ![a].done = @ + 1]

\* _run_agent line 224
WriteProgressFull(a) ==
    /\ FieldWrite(a, "w_done", "w_progress", [agents[a] EXCEPT !.progress = 100])
    /\ UNCHANGED entered

\* _run_agent line 225
WriteResult(a) ==
    /\ FieldWrite(a, "w_progress", "w_end",
                  [agents[a] EXCEPT !.result = PhaseResult(a, context)])
    /\ UNCHANGED entered

\* _run_agent line 230
WriteError(a) ==
    /\ outcome[a] = "raise"
    /\ FieldWrite(a, "called", "w_error", [agents[a] EXCEPT !.status = "error"])
    /\ entered' = [entered EXCEPT ![a].error = @ + 1]

\* _run_agent line 231
WriteErrorText(a) ==
    /\ FieldWrite(a, "w_error", "w_end", [agents[a] EXCEPT !.error = "Exception"])
    /\ UNCHANGED entered

\* _run_agent lines 226 and 232
WriteEndTime(a) ==
    /\ FieldWrite(a, "w_end", "marked", [agents[a] EXCEPT !.end_time = TRUE])
    /\ UNCHANGED entered

\* on_event: the callback is appended to _callbacks (called here between runs)
on_event ==
    /\ main \in {"idle", "returned"}
    /\ Quiet("main")
    /\ _callbacks < MaxCallbacks
    /\ _callbacks' = _callbacks + 1
    /\ delivered' = Append(delivered, <<>>)
    /\ UNCHANGED <<agents, context, event_log, pipeline_end, pipeline_id, main, worker,
                   outcome, returned, emits, entered, pending, swallowed, saves, observed, pedVars, access>>

\* the callback loop stopping at the first callback that raises
CallbackLoopAborting(raisers, received, event) ==
    [i \in 1..Len(received) |->
        IF \E j \in raisers : j < i THEN received[i] ELSE Append(received[i], event)]

\* _emit lines 207-211: every callback is called with the event, in registration
\* order; the Exception raised by the callbacks in raisers is caught by the
\* try around each single call
CallbackLoop(raisers, received, event) ==
    [i \in 1..Len(received) |-> Append(received[i], event)]

\* _emit lines 207-211 on thread t, outside the lock
InvokeCallbacks(t) ==
    /\ ~Quiet(t)
    /\ \E raisers \in SUBSET (1.._callbacks) :
          /\ delivered' = CallbackLoop(raisers, delivered, pending[t])
          /\ swallowed' = (swallowed \/ raisers # {})
    /\ pending' = [pending EXCEPT ![t] = NoEvent]
    /\ UNCHANGED <<agents, context, event_log, pipeline_end, pipeline_id, main, worker,
                   outcome, returned, emits, entered, _callbacks, saves, observed, pedVars, access>>

\* AgentState.to_dict for every agent
AgentsToDict == [a \in AgentNames |->
                    [status |-> agents[a].status, progress |-> agents[a].progress,
                     error |-> agents[a].error,
                     has_result |-> agents[a].result # None]]

\* run_pipeline lines 281-283: pipeline_end is set and pipeline_done emitted
EmitPipelineDone ==
    /\ main = "master"
    /\ Quiet("main")
    /\ worker["master"] = "finished"
    /\ LogRoom
    /\ pipeline_end' = TRUE
    /\ _emit("pipeline_done", "orchestrator", {"total_elapsed"})
    /\ main' = "saving"
    /\ UNCHANGED <<agents, context, pipeline_id, worker, outcome, returned, entered,
                   saves, observed, pedVars, _callbacks, delivered, swallowed, access>>

\* the save letting the exception of the database through to run_pipeline
_try_save_to_db_unguarded(db_raises) == [saved |-> ~db_raises, raises |-> db_raises]

\* _try_save_to_db: loading the module, opening the repository or save_result
\* may raise; except Exception: pass lets nothing through
_try_save_to_db(db_raises) == [saved |-> ~db_raises, raises |-> FALSE]

\* run_pipeline lines 293-302: the dict run_pipeline returns
ReturnedDict ==
    [py |-> "dict",
     agents |-> AgentsToDict,
     report |-> IF outcome["master"] = "ok"
                THEN OrEmpty(context.master_report) ELSE EmptyDict,
     confidence |-> GetIn(context.pedagogy_result, "confidence", EmptyDict),
     event_count |-> Len(event_log)]

\* run_pipeline lines 285-302: the best-effort save, then the return (None
\* stands for run_pipeline raising instead)
RunPipelineFinish ==
    /\ main = "saving"
    /\ Quiet("main")
    /\ \E db_raises \in BOOLEAN :
          LET save == _try_save_to_db(db_raises)
          IN /\ saves' = Append(saves, save.saved)
             /\ returned' = IF save.raises THEN None ELSE ReturnedDict
    /\ main' = "returned"
    /\ UNCHANGED <<agents, context, event_log, pipeline_end, pipeline_id, worker,
                   outcome, emits, entered, observed, pedVars, cbVars, access>>

\* get_pipeline_status()["agents"][a], read by another thread without the lock
ObserveAgent(a) ==
    /\ observed' = [py |-> "dict", name |-> a, agent |-> AgentsToDict[a]]
    /\ UNCHANGED <<agents, context, event_log, pipeline_end, pipeline_id, main, worker,
                   outcome, returned, emits, entered, saves, pedVars, cbVars, access>>

\* get_pipeline_status()["status"]
get_pipeline_status ==
    LET errors == Cardinality({a \in AgentNames : agents[a].status = "error"})
        running == Cardinality({a \in AgentNames : agents[a].status = "running"})
    IN IF pipeline_end THEN "completed"
       ELSE IF errors > 0 /\ running = 0 THEN "failed"
       ELSE IF running > 0 THEN "running"
       ELSE "idle"

\* reset() leaving each agent's error as it is
ResetKeepingErrors ==
    /\ main = "returned"
    /\ Quiet("main")
    /\ agents' = [a \in DOMAIN agents |->
                    [agents[a] EXCEPT !.status = "idle", !.progress = 0,
                                      !.start_time = FALSE, !.end_time = FALSE,
                                      !.result = None]]
    /\ context' = SharedContext(FALSE, FALSE)
    /\ event_log' = <<>>
    /\ pipeline_id' = FALSE
    /\ pipeline_end' = FALSE
    /\ main' = "idle"
    /\ worker' = [a \in AgentNames |-> "none"]
    /\ outcome' = [a \in AgentNames |-> "none"]
    /\ returned' = None
    /\ emits' = 0
    /\ entered' = [a \in AgentNames |-> [running |-> 0, done |-> 0, error |-> 0]]
    /\ UNCHANGED <<pedVars, cbVars, saves, observed, access>>

\* reset(), called once run_pipeline has returned
Reset ==
    /\ main = "returned"
    /\ Quiet("main")
    /\ agents' = [a \in DOMAIN agents |->
                    [agents[a] EXCEPT !.status = "idle", !.progress = 0,
                                      !.start_time = FALSE, !.end_time = FALSE,
                                      !.result = None, !.error = "None"]]
    /\ context' = SharedContext(FALSE, FALSE)
    /\ event_log' = <<>>
    /\ pipeline_id' = FALSE
    /\ pipeline_end' = FALSE
    /\ main' = "idle"
    /\ worker' = [a \in AgentNames |-> "none"]
    /\ outcome' = [a \in AgentNames |-> "none"]
    /\ returned' = None
    /\ emits' = 0
    /\ entered' = [a \in AgentNames |-> [running |-> 0, done |-> 0, error |-> 0]]
    /\ UNCHANGED <<pedVars, cbVars, saves, observed, access>>

-----------------------------------------------------------------------------
(* Specifications *)

\* AgentOrchestrator.__init__
OrchestratorInit ==
    /\ agents = [a \in AgentNames |-> Registered(a)]
    /\ context = SharedContext(FALSE, FALSE)
    /\ event_log = <<>>
    /\ pipeline_end = FALSE
    /\ pipeline_id = FALSE
    /\ main = "idle"
    /\ worker = [a \in AgentNames |-> "none"]
    /\ outcome = [a \in AgentNames |-> "none"]
    /\ returned = None
    /\ emits = 0
    /\ entered = [a \in AgentNames |-> [running |-> 0, done |-> 0, error |-> 0]]
    /\ _callbacks = 0
    /\ pending = [t \in Threads |-> NoEvent]
    /\ delivered = <<>>
    /\ swallowed = FALSE
    /\ saves = <<>>
    /\ observed = None
    /\ access = NoAccess

\* PedagogyAgent() as _phase_pedagogy constructs it, with no call made
PedagogyInit ==
    /\ self = PedagogyAgentNew("default", FALSE, DefaultSteepness)
    /\ instances = 1
    /\ args = [vision |-> EmptyDict, content |-> EmptyDict, vibe |-> EmptyDict,
               stt |-> None, discourse |-> None]
    /\ history = <<>>

\* The scorer: any argument tuple, either scoring mode
Init ==
    /\ args \in Args
    /\ \E cs \in BOOLEAN : self = PedagogyAgentNew("default", cs, DefaultSteepness)
    /\ instances = 1
    /\ history = <<>>
    /\ OrchestratorInit

Next == Construct \/ Evaluate

Spec == Init /\ [][Next]_vars

\* bin tables other than the default ones: a single bin, a gap between bins,
\* overlapping bins, bins listed downwards
OtherBinTables ==
    { << <<"ONLY", 0, 100>> >>,
      << <<"A", 0, 10>>, <<"B", 20, 30>> >>,
      << <<"A", 0, 20>>, <<"B", 10, 30>>, <<"C", 30, 40>> >>,
      << <<"HIGH", 50, 100>>, <<"LOW", 0, 50>> >> }

\* the default tables and the others
BinTables == {DEFAULT_BINNING[m] : m \in DOMAIN DEFAULT_BINNING} \cup OtherBinTables

\* the values at, just below and just above every bound of a table
BoundaryValues(bins) ==
    UNION {{bins[k][2] - 1, bins[k][2], bins[k][2] + 1,
            bins[k][3] - 1, bins[k][3], bins[k][3] + 1} : k \in DOMAIN bins}

\* _bin(value, bins) called by the current instance
Bin ==
    /\ Len(history) < MaxCalls
    /\ history' = Append(history, [instance |-> instances,
                                   value |-> _bin(args.value, args.bins)])
    /\ UNCHANGED <<self, instances, args, orcVars>>

\* _bin on any table and any value around its bounds
BinInit ==
    /\ \E bins \in BinTables :
          \E value \in BoundaryValues(bins) : args = [bins |-> bins, value |-> value]
    /\ self = PedagogyAgentNew("default", FALSE, DefaultSteepness)
    /\ instances = 1
    /\ history = <<>>
    /\ OrchestratorInit

BinNext == Bin \/ Construct

BinSpec == BinInit /\ [][BinNext]_vars

\* The pipeline from construction to the join of the thread pool, under every
\* interleaving of the four workers
PoolInit == PedagogyInit /\ OrchestratorInit

PoolNext ==
    \/ RunPipelineStart
    \/ \E a \in {"extractor"} \cup ParallelAgents :
          \/ RunAgentBegin(a)
          \/ EmitAgentStart(a)
          \/ PhaseReturn(a)
          \/ MarkDone(a)
          \/ EmitAgentDone(a)
    \/ \E a \in ParallelAgents :
          \/ PhaseRaise(a)
          \/ MarkError(a)
          \/ EmitAgentError(a)
    \/ SubmitPool
    \/ PoolJoin

PoolSpec == PoolInit /\ [][PoolNext]_vars

\* a pool worker starts while no other pool worker is inside _run_agent
OneAtATime(a) ==
    a \in ParallelAgents =>
        \A b \in ParallelAgents \ {a} : worker[b] \in {"ready", "finished"} /\ Quiet(b)

\* The whole pipeline, any agent failing, run again with or without reset(),
\* under the schedules in which the pool's workers do not overlap
PipelineInit == PedagogyInit /\ OrchestratorInit

PipelineNext ==
    \/ RunPipelineStart
    \/ \E a \in AgentNames :
          \/ OneAtATime(a) /\ RunAgentBegin(a)
          \/ EmitAgentStart(a)
          \/ PhaseReturn(a)
          \/ PhaseRaise(a)
          \/ MarkDone(a)
          \/ MarkError(a)
          \/ EmitAgentDone(a)
          \/ EmitAgentError(a)
    \/ SubmitPool
    \/ PoolJoin
    \/ DiscourseAnalyze
    \/ DiscourseRaise
    \/ CallFeedback
    \/ CallSynthesize
    \/ EmitPipelineDone
    \/ RunPipelineFinish
    \/ Reset

PipelineSpec == PipelineInit /\ [][PipelineNext]_vars

\* run_pipeline lines 259-262: the order in which the four are submitted
SubmissionOrder == <<"vision", "content", "stt", "vibe">>

\* a pool worker starts once the workers submitted before it have left _run_agent
InSubmissionOrder(a) ==
    \A i, j \in 1..Len(SubmissionOrder) :
        (SubmissionOrder[j] = a /\ i < j) =>
            worker[SubmissionOrder[i]] = "finished" /\ Quiet(SubmissionOrder[i])

\* One run of the whole pipeline with callbacks registered by on_event, any
\* of them raising on any event, the pool's workers running in submission order
CallbackInit == PedagogyInit /\ OrchestratorInit

CallbackNext ==
    \/ on_event
    \/ main = "idle" /\ RunPipelineStart
    \/ \E a \in AgentNames :
          \/ InSubmissionOrder(a) /\ RunAgentBegin(a)
          \/ EmitAgentStart(a)
          \/ PhaseReturn(a)
          \/ PhaseRaise(a)
          \/ MarkDone(a)
          \/ MarkError(a)
          \/ EmitAgentDone(a)
          \/ EmitAgentError(a)
    \/ SubmitPool
    \/ PoolJoin
    \/ DiscourseAnalyze
    \/ DiscourseRaise
    \/ CallFeedback
    \/ CallSynthesize
    \/ EmitPipelineDone
    \/ RunPipelineFinish
    \/ \E t \in Threads : InvokeCallbacks(t)

CallbackSpec == CallbackInit /\ [][CallbackNext]_vars

\* run_pipeline up to the join of the pool, every field assignment of _run_agent
\* a step of its own, while another thread calls get_pipeline_status; the
\* pool's workers run in submission order
StatusInit == PedagogyInit /\ OrchestratorInit

StatusNext ==
    \/ main = "idle" /\ RunPipelineStart
    \/ \E a \in {"extractor"} \cup ParallelAgents :
          \/ InSubmissionOrder(a) /\ WriteRunning(a)
          \/ WriteStartTime(a)
          \/ WriteProgressZero(a)
          \/ EmitAgentStart(a)
          \/ PhaseReturn(a)
          \/ WriteDone(a)
          \/ WriteProgressFull(a)
          \/ WriteResult(a)
          \/ WriteEndTime(a)
          \/ EmitAgentDone(a)
    \/ \E a \in ParallelAgents :
          \/ PhaseRaise(a)
          \/ WriteError(a)
          \/ WriteErrorText(a)
          \/ EmitAgentError(a)
    \/ SubmitPool
    \/ PoolJoin
    \/ \E a \in AgentNames : ObserveAgent(a)

StatusSpec == StatusInit /\ [][StatusNext]_vars

-----------------------------------------------------------------------------
(* Properties of the scorer (specification Spec) *)

\* the result of the i-th recorded call
Result(i) == history[i].value

\* the scores of a result, in rubric order
Scores(r) == [d \in 1..Len(r.dimensions) |-> r.dimensions[d].score]

\* C1: for every combination of the five inputs, out-of-range metrics
\* included, evaluate returns a result whose 7 dimension scores all satisfy
\* 0 <= score <= max_score.
C1_ScoresBounded ==
    \A i \in DOMAIN history :
        /\ Result(i).py = "dict"
        /\ Len(Result(i).dimensions) = 7
        /\ \A d \in 1..7 :
              /\ 0 <= Result(i).dimensions[d].score
              /\ Result(i).dimensions[d].score <= Result(i).dimensions[d].max_score

\* an evaluation of out-of-range metrics (filler_ratio 5.0, word_count -1)
C1_Witness ==
    /\ Len(history) >= 1
    /\ args.stt = STT_EXTREME
    /\ args.vision = VIS_EXTREME
    /\ args.discourse = DISC_EXTREME

Sources == {"vision", "content", "vibe", "stt", "discourse"}

\* the source is a dict with an "error" key
HasError(v) == v.py = "dict" /\ "error" \in DOMAIN v.items

\* C3 (as the spec states it): for each source that is a dict containing an
\* "error" key, the result is identical (availability flags,
\* confidence.overall, every score and every per-dimension confidence) to
\* the result with that source replaced by the empty dict.
C3_ErrorIsUnavailable ==
    \A i \in DOMAIN history :
        \A s \in Sources :
            HasError(args[s]) =>
                Result(i) = EvaluateCall(self, [args EXCEPT ![s] = EmptyDict])

\* the range _make_score clamps to, from the preset and the weight
EffectiveMin(agent, name) ==
    Max(_get_base(agent, name) - _get_adjust_range(agent, name), 0)

EffectiveMax(agent, name) ==
    Min(_get_base(agent, name) + _get_adjust_range(agent, name),
        EffectiveCap(GetIn(agent.dimensions, name, 1000)))

\* C4 (as the spec states it): under the default preset every reported
\* dimension score lies in [max(base - adjust_range, 0),
\* min(base + adjust_range, 0.95 * max_score)], so no score exceeds 95% of
\* its max_score.
C4_WithinEffectiveRange ==
    \A i \in DOMAIN history :
        \A d \in 1..7 :
            LET ds == Result(i).dimensions[d]
            IN /\ EffectiveMin(self, ds.name) <= ds.score
               /\ ds.score <= EffectiveMax(self, ds.name)
               /\ 100 * ds.score <= 95 * ds.max_score

\* evaluate({}, {}, {})
EmptyArgs == [vision |-> EmptyDict, content |-> EmptyDict, vibe |-> EmptyDict,
              stt |-> None, discourse |-> None]

\* C5: evaluate({}, {}, {}) returns confidence.overall = 0, every
\* availability flag false and each of the 7 scores at its preset base,
\* 14, 14, 10, 10, 10, 7, 3.
C5_EmptyInputs ==
    \A i \in DOMAIN history :
        args = EmptyArgs =>
            /\ Result(i).py = "dict"
            /\ Result(i).confidence.overall = 0
            /\ ~Result(i).confidence.vision_available
            /\ ~Result(i).confidence.content_available
            /\ ~Result(i).confidence.stt_available
            /\ ~Result(i).confidence.vibe_available
            /\ ~Result(i).confidence.discourse_available
            /\ Scores(Result(i)) = <<1400, 1400, 1000, 1000, 1000, 700, 300>>
            /\ \A d \in 1..7 :
                  Result(i).dimensions[d].score = _get_base(self, DimNames[d])

\* the all-empty call has been made
C5_Witness == Len(history) >= 1 /\ args = EmptyArgs

-----------------------------------------------------------------------------
(* Properties of the orchestrator (specifications PoolSpec, PipelineSpec) *)

\* the context field a parallel agent's phase function fills
SummaryOf(a) ==
    CASE a = "vision"  -> context.vision_summary
      [] a = "content" -> context.content_summary
      [] a = "stt"     -> context.stt_result
      [] a = "vibe"    -> context.vibe_summary

\* the scorer's availability check of that field
SourceOk(a) ==
    CASE a = "vision"  -> VisOk(context.vision_summary)
      [] a = "content" -> ConOk(context.content_summary)
      [] a = "stt"     -> SttOk(OrEmpty(context.stt_result))
      [] a = "vibe"    -> VibOk(context.vibe_summary)

StageOrder ==
    /\ \A a \in ParallelAgents :
          agents[a].status = "running" => Terminal("extractor")
    /\ worker["pedagogy"] = "discoursed" => Terminal("stt")
    /\ worker["pedagogy"] = "called" => \A a \in ParallelAgents : Terminal(a)
    /\ agents["feedback"].status = "running" => Terminal("pedagogy")
    /\ agents["master"].status = "running" => Terminal("feedback")

\* the evaluate call is made from the point where discourse analysis returned
EvaluateAfterDiscourse ==
    (worker["pedagogy"] # "called" /\ worker'["pedagogy"] = "called") =>
        /\ worker["pedagogy"] = "discoursed"
        /\ \A a \in ParallelAgents : Terminal(a)

\* C7: no stage starts before the stages it depends on are terminal: the
\* four parallel agents run only after extractor is terminal, discourse
\* analysis only after stt is terminal, the evaluate call only after all
\* four are terminal and discourse analysis has returned, feedback only
\* after pedagogy is terminal, master only after feedback is terminal.
C7_StageOrdering == [][StageOrder' /\ EvaluateAfterDiscourse]_vars

\* master running in a run where stt and pedagogy failed
C7_Witness ==
    /\ agents["master"].status = "running"
    /\ worker["master"] = "emitted"
    /\ agents["stt"].status = "error"
    /\ agents["pedagogy"].status = "error"
    /\ agents["feedback"].status = "done"

\* the event log holds an agent_error event of the agent with its traceback
ErrorLogged(a) ==
    \E i \in DOMAIN event_log :
        /\ event_log[i].type = "agent_error"
        /\ event_log[i].agent = a
        /\ "traceback" \in event_log[i].data

\* C8 (as the spec states it): when the pedagogy phase raised, the event
\* log holds its agent_error event with the traceback and, once
\* run_pipeline has returned, get_pipeline_status reports "failed".
C8_PedagogyFailureFailsRun ==
    (main = "returned" /\ outcome["pedagogy"] = "raise") =>
        /\ ErrorLogged("pedagogy")
        /\ get_pipeline_status = "failed"

\* the status changes the lifecycle allows
AllowedTransitions == {<<"idle", "running">>, <<"running", "done">>,
                       <<"running", "error">>}

\* C9 (as the spec states it): every change of an agent's status is
\* idle -> running, running -> done, running -> error, or a reset() to
\* idle, also when run_pipeline is called again on the same orchestrator.
C9_StatusLifecycle ==
    [][\A a \in AgentNames :
          agents'[a].status # agents[a].status =>
              \/ <<agents[a].status, agents'[a].status>> \in AllowedTransitions
              \/ (main = "returned" /\ main' = "idle" /\ agents'[a].status = "idle")]_vars

\* the number of events of a type naming an agent
EventCount(type, a) ==
    Cardinality({i \in DOMAIN event_log :
                    event_log[i].type = type /\ event_log[i].agent = a})

\* 1 while the status write at that position still awaits its event
Pending(a, position, result) ==
    IF worker[a] = position /\ (result = "any" \/ outcome[a] = result) THEN 1 ELSE 0

\* each status write of _run_agent has exactly one event, once it is emitted
EventPerTransition ==
    /\ Len(event_log) = emits
    /\ \A a \in AgentNames :
          /\ EventCount("agent_start", a)
                = entered[a].running - Pending(a, "started", "any")
          /\ EventCount("agent_done", a)
                = entered[a].done - Pending(a, "marked", "ok")
          /\ EventCount("agent_error", a)
                = entered[a].error - Pending(a, "marked", "raise")

\* a step leaves the log alone, appends one event, or is reset() clearing it
AppendOnly ==
    \/ event_log' = event_log
    \/ /\ Len(event_log') = Len(event_log) + 1
       /\ SubSeq(event_log', 1, Len(event_log)) = event_log
    \/ (main = "returned" /\ main' = "idle" /\ event_log' = <<>>)

\* C10: every status write of _run_agent appends exactly one event naming
\* the agent, and under every interleaving of the four workers the log is
\* append-only: nothing is lost, overwritten, removed or reordered, and its
\* length is the number of _emit calls.
C10_EventLogAppendOnly == [][AppendOnly /\ EventPerTransition']_vars

\* the log of a joined pool whose workers' events interleave, one an error
C10_Witness ==
    /\ main = "pedagogy"
    /\ Len(event_log) = 11
    /\ event_log[4].type = "agent_start"
    /\ event_log[5].type = "agent_start"
    /\ event_log[6].type = "agent_error"
    /\ event_log[7].type = "agent_start"
    /\ event_log[11].type = "agent_done"
\* the instance with the label lookup selected
Binned(agent) == [agent EXCEPT !.continuous_scoring = FALSE]

\* inputs on which the gesture metric is the only binned metric of the second
\* dimension, lies inside the ACTIVE bin, and the label-lookup score is not
\* clamped: there the sigmoid mapper, a weighted mean of all four label
\* scores with positive weights, gives the metric at most 3.38 where the
\* label gives 3.5
GestureSensitive(a) ==
    LET g == _safe(a.vision, "gesture_active_ratio", 0)
        b == EvaluateCall(Binned(self), a).dimensions[2]
    IN /\ VisOk(a.vision)
       /\ ~SttOk(OrEmpty(a.stt))
       /\ 550 <= g /\ g < 1000
       /\ EffectiveMin(self, b.name) < b.score
       /\ b.score < EffectiveMax(self, b.name)

\* C15 (as the spec states it): continuous_scoring selects the mapping evaluate
\* uses; with the flag true the binned metrics contribute the value of the
\* sigmoid mapper instead of the score of their label, so on the inputs above
\* the second dimension scores lower than it does with the flag false.
C15_FlagSelectsMapping ==
    \A i \in DOMAIN history :
        (self.continuous_scoring /\ GestureSensitive(args)) =>
            Result(i).dimensions[2].score
                < EvaluateCall(Binned(self), args).dimensions[2].score

\* C17: the grade of a result is the label of the highest threshold of the
\* grading table that does not exceed the reported total_score; a total of 90
\* carries A+ and a total of 89.9 carries A.
C17_GradeFromTotal ==
    \A i \in DOMAIN history :
        LET r == Result(i)
        IN /\ \E g \in DOMAIN DEFAULT_GRADING :
                 /\ r.grade = GradeLabel[g]
                 /\ 100 * DEFAULT_GRADING[g] <= r.total_score
                 /\ \A h \in DOMAIN DEFAULT_GRADING :
                       100 * DEFAULT_GRADING[h] <= r.total_score =>
                           DEFAULT_GRADING[h] <= DEFAULT_GRADING[g]
           /\ r.total_score = 9000 => r.grade = "A+"
           /\ r.total_score = 8990 => r.grade = "A"

\* a call has returned a total of exactly 90 with grade A+
C17_Witness ==
    /\ history # <<>>
    /\ Result(1).total_score = 9000
    /\ Result(1).grade = "A+"

\* the sources a confidence dict reports available
Available(c) ==
    {s \in Sources :
        \/ s = "vision" /\ c.vision_available
        \/ s = "content" /\ c.content_available
        \/ s = "stt" /\ c.stt_available
        \/ s = "vibe" /\ c.vibe_available
        \/ s = "discourse" /\ c.discourse_available}

\* the sum of the default weights of a set of sources, thousandths
WeightOf(S) == SumValues([s \in S |-> DEFAULT_CONFIDENCE_WEIGHTS[s]])

\* the confidence computed with exactly the sources of S available
ConfidenceOf(S) ==
    _compute_confidence(self, "vision" \in S, "content" \in S, "stt" \in S,
                        "vibe" \in S, "discourse" \in S)

\* C18: with the default weights confidence.overall is the sum of the weights
\* of the available sources over the sum of all five, lies in [0, 1], is 0
\* with no source available, and does not decrease when one more source
\* becomes available.
C18_ConfidenceMonotone ==
    \A i \in DOMAIN history :
        LET c == Result(i).confidence
        IN /\ c.overall * WeightOf(Sources) = 1000 * WeightOf(Available(c))
           /\ 0 <= c.overall /\ c.overall <= 1000
           /\ Available(c) = {} => c.overall = 0
           /\ c = ConfidenceOf(Available(c))
           /\ \A s \in Sources \ Available(c) :
                 ConfidenceOf(Available(c) \cup {s}).overall >= c.overall

\* a call with vision and speech only: half of the weight is available
C18_Witness ==
    /\ history # <<>>
    /\ Available(Result(1).confidence) = {"vision", "stt"}
    /\ Result(1).confidence.overall = 500

\* the names of a sequence of names
Range(names) == {names[k] : k \in DOMAIN names}

\* C19: in every result strengths lists exactly the dimensions whose
\* percentage is at least 80 and improvements exactly those whose percentage
\* is below 60, top_dimension names a dimension of maximal percentage and
\* weakest_dimension one of minimal percentage.
C19_ProfileSummary ==
    \A i \in DOMAIN history :
        LET ds == Result(i).dimensions
            ps == Result(i).profile_summary
        IN /\ Range(ps.strengths) =
                 {ds[d].name : d \in {d \in 1..7 : 100 * ds[d].score >= 80 * ds[d].max_score}}
           /\ Range(ps.improvements) =
                 {ds[d].name : d \in {d \in 1..7 : 100 * ds[d].score < 60 * ds[d].max_score}}
           /\ Len(ps.strengths) = Cardinality(Range(ps.strengths))
           /\ Len(ps.improvements) = Cardinality(Range(ps.improvements))
           /\ \E t \in 1..7 :
                 /\ ps.top_dimension = ds[t].name
                 /\ \A d \in 1..7 :
                       ds[d].score * ds[t].max_score <= ds[t].score * ds[d].max_score
           /\ \E w \in 1..7 :
                 /\ ps.weakest_dimension = ds[w].name
                 /\ \A d \in 1..7 :
                       ds[d].score * ds[w].max_score >= ds[w].score * ds[d].max_score

\* a result with strengths and improvements both non-empty, one dimension
\* exactly at 80 percent and one exactly at 60
C19_Witness ==
    /\ history # <<>>
    /\ Result(1).profile_summary.strengths # <<>>
    /\ Result(1).profile_summary.improvements # <<>>
    /\ \E d \in 1..7 : Result(1).dimensions[d].percentage = 80000
    /\ \E d \in 1..7 : Result(1).dimensions[d].percentage = 60000

\* C20: in every result total_score is the sum of the scores of the 7 entries
\* of dimensions and of the values of dimension_scores, each dimension
\* appearing exactly once.
C20_TotalIsSum ==
    \A i \in DOMAIN history :
        LET r == Result(i)
        IN /\ Len(r.dimensions) = 7
           /\ r.total_score = SumValues(Scores(r))
           /\ r.total_score = SumValues(r.dimension_scores)
           /\ [d \in 1..7 |-> r.dimensions[d].name] = DimNames
           /\ DOMAIN r.dimension_scores = Range(DimNames)
           /\ Cardinality(DOMAIN r.dimension_scores) = 7
           /\ \A d \in 1..7 :
                 r.dimension_scores[r.dimensions[d].name] = r.dimensions[d].score

\* a call on populated inputs whose seven scores, not all alike, add up to
\* the reported 94.9
C20_Witness ==
    /\ history # <<>>
    /\ args.vision = VIS_GOOD /\ args.content = CON_GOOD /\ args.vibe = VIBE_GOOD
    /\ args.stt = STT_GOOD /\ args.discourse = DISC_GOOD
    /\ Result(1).total_score = 9490
    /\ Scores(Result(1)) = <<1900, 1900, 1420, 1420, 1420, 950, 480>>

-----------------------------------------------------------------------------
(* Properties of _bin (specification BinSpec) *)

\* the positions of the table whose interval [low, high) contains the value
Containing(value, bins) ==
    {k \in DOMAIN bins : bins[k][2] <= value /\ value < bins[k][3]}

\* the first label in table order whose interval contains the value, else the last
FirstContaining(value, bins) ==
    IF Containing(value, bins) = {} THEN bins[Len(bins)][1]
    ELSE bins[CHOOSE k \in Containing(value, bins) :
                 \A j \in Containing(value, bins) : k <= j][1]

\* C16: on a non-empty table _bin returns the first label in table order whose
\* [low, high) contains the value and the last label when none does; 0.15 of
\* gesture_active_ratio is LOW, and on the default tables a value at or above
\* the last high gets the last label.
C16_BinFirstContaining ==
    \A i \in DOMAIN history :
        LET bins == args.bins
            value == args.value
            label == Result(i)
        IN /\ \E k \in DOMAIN bins : label = bins[k][1]
           /\ label = FirstContaining(value, bins)
           /\ (bins = DEFAULT_BINNING.gesture_active_ratio /\ value = 150) =>
                 label = "LOW"
           /\ (bins \notin OtherBinTables /\ value >= bins[Len(bins)][3]) =>
                 label = bins[Len(bins)][1]

\* _bin has been called with the gesture table on the bound between its first
\* two bins
C16_Witness ==
    /\ history # <<>>
    /\ args.bins = DEFAULT_BINNING.gesture_active_ratio
    /\ args.value = 150
    /\ Result(1) = "LOW"

-----------------------------------------------------------------------------
(* Properties of the callbacks (specification CallbackSpec) *)

\* the step is the callback loop of thread t
CallbackStep(t) == ~Quiet(t) /\ pending'[t] = NoEvent

\* C11: when a registered callback raises on an event, the event is still in
\* event_log, every registered callback is still called with that event, and
\* the agents, the stage reached by every thread, the context and the returned
\* dict are what they are when no callback raises: the callback loop changes
\* nothing but what the callbacks received.
C11_CallbackIsolation ==
    [][\A t \in Threads :
          CallbackStep(t) =>
              /\ \E k \in DOMAIN event_log : event_log[k] = pending[t]
              /\ \A i \in 1.._callbacks : delivered'[i] = Append(delivered[i], pending[t])
              /\ UNCHANGED <<agents, context, event_log, pipeline_end, main, worker,
                             outcome, returned, _callbacks>>]_vars

\* a run has returned with two callbacks registered before it, one of them
\* having raised, and both have received every event of the log
C11_Witness ==
    /\ main = "returned"
    /\ swallowed
    /\ _callbacks = 2
    /\ \A i \in 1..2 : delivered[i] = event_log
    /\ returned.event_count = Len(event_log)

-----------------------------------------------------------------------------
(* Properties of the save (specification PipelineSpec) *)

\* the step is a call of _try_save_to_db
SaveStep == saves' # saves /\ saves' # <<>>

\* C12: run_pipeline attempts the save exactly once per run, after master has
\* finished and pipeline_done has been emitted; whether the save succeeds or
\* raises, run_pipeline returns the same dict and the save changes no agent
\* and no entry of the event log.
C12_SaveOnceBestEffort ==
    [][/\ SaveStep =>
             /\ Terminal("master")
             /\ event_log # <<>> /\ event_log[Len(event_log)].type = "pipeline_done"
             /\ returned' = ReturnedDict
             /\ UNCHANGED <<agents, event_log>>
       /\ main' = "returned" => Len(saves') = 1
       /\ main' \notin {"returned", "idle"} => saves' = <<>>]_vars

\* a run has returned its dict although its save raised
C12_Witness ==
    /\ main = "returned"
    /\ saves = <<FALSE>>
    /\ returned = ReturnedDict
    /\ returned.event_count = Len(event_log)

-----------------------------------------------------------------------------
(* Properties of the status reader (specification StatusSpec) *)

\* C13: a reader calling get_pipeline_status while the pipeline runs never
\* sees a partially updated agent: an agent seen done has progress 100 and a
\* result, an agent seen in error has its error text.
C13_NoPartialAgent ==
    observed # None =>
        /\ observed.agent.status = "done" =>
              observed.agent.progress = 100 /\ observed.agent.has_result
        /\ observed.agent.status = "error" => observed.agent.error # "None"

-----------------------------------------------------------------------------
(* Properties of the shared context (specification PipelineSpec) *)

\* the fields the pool agents read that none of them assigns
PoolInputs == {"extracted_frames", "audio_path", "video_path"}

\* the context fields the step changes
Changed == {f \in DOMAIN context : context'[f] # context[f]}

\* the accesses of the pool agents do not meet
DisjointAccess ==
    \A a \in ParallelAgents :
        /\ access[a].writes \cap PoolInputs = {}
        /\ \A b \in ParallelAgents \ {a} :
              /\ access[a].writes \cap access[b].writes = {}
              /\ access[a].reads \cap access[b].writes = {}

\* C14: during the parallel phase each context field is written by at most
\* one of the four agents and no agent reads a field another of them writes;
\* extracted_frames, audio_path and video_path, which they read, are written
\* by none of them and do not change during the parallel phase, and a step
\* of the phase changes only fields its agent is recorded to write.
C14_ContextPartition ==
    [][/\ DisjointAccess'
       /\ (main = "pool" /\ main' = "pool") =>
             /\ Changed \cap PoolInputs = {}
             /\ \A a \in ParallelAgents :
                   worker'[a] # worker[a] => Changed \subseteq access'[a].writes]_vars

\* the pool has been joined after all four phase functions returned, the
\* speech agent having fallen back on video_path for want of an audio file
C14_Witness ==
    /\ main = "pedagogy"
    /\ \A a \in ParallelAgents : outcome[a] = "ok"
    /\ access["stt"].reads = {"audio_path", "video_path"}
    /\ access["stt"].writes = {"stt_result"}
    /\ access["vision"].writes = {"vision_summary", "vision_timeline"}
    /\ access["content"].writes = {"content_summary", "content_timeline"}

\* the pool has been joined with the voice agent having written its two fields
C14_WitnessAudio ==
    /\ main = "pedagogy"
    /\ access["vibe"].writes = {"vibe_summary", "vibe_timeline"}
    /\ access["stt"].reads = {"audio_path"}

-----------------------------------------------------------------------------
(* The two profiles of tests/test_pedagogy_v7.py against each other *)

GoodTeacher == [vision |-> VIS_GOOD, content |-> CON_GOOD, vibe |-> VIBE_GOOD,
                stt |-> STT_GOOD, discourse |-> DISC_GOOD]
PoorTeacher == [vision |-> VIS_BAD, content |-> CON_BAD, vibe |-> VIBE_BAD,
                stt |-> STT_BAD, discourse |-> DISC_BAD]

\* C21: with the default configuration in binned mode, the total_score that
\* evaluate returns on the good-teacher profile is at least 25 points above
\* the total_score it returns on the poor-teacher profile.
C21_GoodBeatsPoor ==
    \A i \in DOMAIN history :
        ~self.continuous_scoring =>
            /\ args = GoodTeacher =>
                  Result(i).total_score
                      - EvaluateCall(self, PoorTeacher).total_score >= 2500
            /\ args = PoorTeacher =>
                  EvaluateCall(self, GoodTeacher).total_score
                      - Result(i).total_score >= 2500

\* the good-teacher profile has been evaluated in binned mode: 94.9 points
C21_Witness ==
    /\ Len(history) >= 1
    /\ args = GoodTeacher
    /\ ~self.continuous_scoring
    /\ self.preset = "default"
    /\ Result(1).total_score = 9490
    /\ EvaluateCall(self, PoorTeacher).total_score = 3300

-----------------------------------------------------------------------------
(* evaluate with the transcript as the only available source *)

\* transcripts with one value in each bin of the filler and teacher ratios and
\* on each branch of the turn, interaction and question counts
SttGrid ==
    {Dict([word_count |-> 900, filler_ratio |-> fr, speaking_pattern |-> pat,
           student_turns |-> st, interaction_count |-> ic, teacher_ratio |-> tr,
           question_count |-> q]) :
        fr \in {10, 28, 40, 60, 90}, pat \in {"", "Fast", "Slow"},
        st \in {0, 3, 8, 25}, ic \in {0, 5, 15}, tr \in {300, 600, 700, 850, 950},
        q \in {0, 5, 11}}

SttOnlyInputs == SttGrid \cup {STT_GOOD, STT_BAD, STT_EXTREME, STT_ZERO_DUR, STT_MIN}

\* evaluate({}, {}, {}, stt_result=stt, discourse_result=discourse) with
\* discourse None or {}
SttOnlyInit ==
    /\ args \in [vision : {EmptyDict}, content : {EmptyDict}, vibe : {EmptyDict},
                 stt : SttOnlyInputs, discourse : {None, EmptyDict}]
    /\ self = PedagogyAgentNew("default", FALSE, DefaultSteepness)
    /\ instances = 1
    /\ history = <<>>
    /\ OrchestratorInit

SttOnlyNext == Evaluate \/ Construct

SttOnlySpec == SttOnlyInit /\ [][SttOnlyNext]_vars

\* the result of evaluate({}, {}, {}) by the current instance
AllMissing == EvaluateCall(self, EmptyArgs)

\* the dimension of a result by its name
Dimension(r, name) == r.dimensions[CHOOSE d \in 1..Len(r.dimensions) : DimNames[d] = name]

\* the arguments have a transcript with a word count and nothing else
SttOnly(a) ==
    /\ Truthy(a.stt) /\ Has(a.stt, "word_count")
    /\ ~Truthy(a.vision) /\ ~Truthy(a.content) /\ ~Truthy(a.vibe)
    /\ ~Truthy(a.discourse)

\* C22 as stated: whenever stt_result is the only available source,
\* confidence.overall is strictly greater than in the all-missing case and the
\* scores of the two dimensions that consume the transcript (language and
\* participation) differ from their all-missing scores.
C22_SttAloneChangesScores ==
    \A i \in DOMAIN history :
        SttOnly(args) =>
            /\ Result(i).confidence.overall > AllMissing.confidence.overall
            /\ Dimension(Result(i), "language").score
                  # Dimension(AllMissing, "language").score
            /\ Dimension(Result(i), "participation").score
                  # Dimension(AllMissing, "participation").score

\* what a transcript adds to the language base: the filler label's points
\* and the speaking pattern's
LanguageSpeech(stt) ==
    LET fr == Get(stt, "filler_ratio", 30)
        pat == Get(stt, "speaking_pattern", "")
    IN (IF fr < 20 THEN 400 ELSE IF fr < 35 THEN 200 ELSE IF fr < 50 THEN 50
        ELSE IF fr < 70 THEN -200 ELSE -400)
       + (IF pat = "Fast" THEN -150 ELSE IF pat = "Slow" THEN -50 ELSE 0)

\* what a transcript adds to the participation base: student turns,
\* interaction count, the teacher-ratio label and the question count
ParticipationSpeech(stt) ==
    LET st == Get(stt, "student_turns", 0)
        ic == Get(stt, "interaction_count", 0)
        tr == Get(stt, "teacher_ratio", 750)
        q == Get(stt, "question_count", 0)
    IN (IF st > 20 THEN 250 ELSE IF st > 10 THEN 150 ELSE IF st > 5 THEN 50
        ELSE IF st > 0 THEN 0 ELSE -400)
       + (IF ic > 20 THEN 150 ELSE IF ic > 10 THEN 50 ELSE IF ic < 3 THEN -150 ELSE 0)
       + (IF tr < 500 THEN 200 ELSE IF tr < 650 THEN 150 ELSE IF tr < 800 THEN 50
          ELSE IF tr < 920 THEN -150 ELSE -400)
       + (IF q > 10 THEN 100 ELSE IF q = 0 THEN -100 ELSE 0)

\* C22 (amended): whenever stt_result is the only available source,
\* confidence.overall and the confidence of the language and participation
\* dimensions are strictly greater than in the all-missing case, and the
\* score of each of the two dimensions differs from its all-missing score
\* exactly when the points the transcript adds to that dimension do not sum
\* to zero; they do not on the transcripts of the test profiles.
C22_SttAloneRaisesConfidence ==
    \A i \in DOMAIN history :
        SttOnly(args) =>
            /\ Result(i).confidence.overall > AllMissing.confidence.overall
            /\ \A name \in {"language", "participation"} :
                  Dimension(Result(i), name).confidence
                      > Dimension(AllMissing, name).confidence
            /\ (Dimension(Result(i), "language").score
                   # Dimension(AllMissing, "language").score)
               <=> (LanguageSpeech(args.stt) # 0)
            /\ (Dimension(Result(i), "participation").score
                   # Dimension(AllMissing, "participation").score)
               <=> (ParticipationSpeech(args.stt) # 0)
            /\ args.stt \in {STT_GOOD, STT_BAD} =>
                  /\ LanguageSpeech(args.stt) # 0
                  /\ ParticipationSpeech(args.stt) # 0

\* a transcript with a MODERATE filler ratio and a slow pattern has been
\* evaluated alone: more confidence, the language score of the all-missing case
C22_Witness ==
    /\ Len(history) >= 1
    /\ SttOnly(args)
    /\ Get(args.stt, "filler_ratio", 30) = 40
    /\ Get(args.stt, "speaking_pattern", "") = "Slow"
    /\ Result(1).confidence.overall = 300
    /\ Dimension(Result(1), "language").score = 1000
    /\ Dimension(Result(1), "participation").score # 1000

-----------------------------------------------------------------------------
(* _sigmoid_map and _continuous_score.  Values and bin bounds are in        *)
(* thousandths, steepness in tenths, scores in hundredths.  The weights are *)
(* not computed: a result is the interval of scores it lies in, a single    *)
(* score where the code returns a table entry, or the exception raised.     *)

\* a float argument: x thousandths, or an infinity
Finite(x) == [finite |-> TRUE, x |-> x]
Infinite == [finite |-> FALSE, x |-> 0]

\* a float result between low and high, and a raised exception
Float(low, high) == [py |-> "float", low |-> low, high |-> high]
Raised(exc) == [py |-> "raise", exc |-> exc]

\* math.exp(x) raises OverflowError for x above ln(DBL_MAX) = 709.78271...;
\* the least multiple of 1/20000 above it
ExpOverflowAt == 14195655

Abs(x) == IF x < 0 THEN -x ELSE x

\* twice abs(value - center), center = (low + high) / 2
Dist2(x, bin) == Abs(2 * x - (bin[2] + bin[3]))

\* math.exp(steepness * dist - steepness * 0.1) overflows: in 1/20000,
\* steepness * (dist2 - 200) >= ExpOverflowAt
ExpOverflows(steepness, dist2) ==
    dist2 - 200 >= (ExpOverflowAt + steepness - 1) \div steepness

\* scores.get(label, 0.0) of a bin
ScoreOf(bin, scores) == GetIn(scores, bin[1], 0)

\* min(centers, key=lambda c: abs(value - c[0])): the first bin at the least
\* distance; every distance from an infinity is infinite
Closest(value, bins) ==
    IF ~value.finite THEN 1
    ELSE CHOOSE k \in DOMAIN bins :
            /\ \A j \in DOMAIN bins : Dist2(value.x, bins[k]) <= Dist2(value.x, bins[j])
            /\ \A j \in 1..(k - 1) : Dist2(value.x, bins[j]) > Dist2(value.x, bins[k])

\* the loop over the centers and what follows it.  exp(inf) is inf, so from an
\* infinite value every weight is 0.0 and the fallback returns the closest
\* bin's score; a finite value gives every bin a positive weight unless one
\* exp overflows, which raises
WeightedScore(value, bins, scores, steepness) ==
    LET all == {ScoreOf(bins[k], scores) : k \in DOMAIN bins}
        low == CHOOSE s \in all : \A t \in all : s <= t
        high == CHOOSE s \in all : \A t \in all : s >= t
        closest == ScoreOf(bins[Closest(value, bins)], scores)
    IN IF ~value.finite THEN Float(closest, closest)
       ELSE IF \E k \in DOMAIN bins : ExpOverflows(steepness, Dist2(value.x, bins[k]))
       THEN Raised("OverflowError")
       ELSE Float(low, high)

\* _sigmoid_map without the return for fewer than two labels
_sigmoid_map_no_early_return(value, bins, scores, steepness) ==
    IF Len(bins) = 0 THEN Float(0, 0) ELSE WeightedScore(value, bins, scores, steepness)

\* _sigmoid_map
_sigmoid_map(value, bins, scores, steepness) ==
    IF Len(bins) < 2
    THEN (IF Len(bins) = 1
          THEN Float(ScoreOf(bins[1], scores), ScoreOf(bins[1], scores))
          ELSE Float(0, 0))
    ELSE WeightedScore(value, bins, scores, steepness)

\* the bounds of a built-in table in thousandths (speaking_wpm is kept in
\* whole words per minute)
InThousandths(metric_name, bins) ==
    IF metric_name = "speaking_wpm"
    THEN [k \in DOMAIN bins |-> <<bins[k][1], 1000 * bins[k][2], 1000 * bins[k][3]>>]
    ELSE bins

\* a value of thousandths in the unit of the metric's table
InTableUnit(metric_name, x) == IF metric_name = "speaking_wpm" THEN x \div 1000 ELSE x

\* PedagogyAgent._continuous_score
_continuous_score(agent, metric_name, value, label_scores) ==
    IF ~agent.continuous_scoring
    THEN LET bins == GetIn(agent.binning, metric_name, <<>>)
             label == IF bins = <<>> THEN "UNKNOWN"
                      ELSE IF value.finite
                      THEN _bin_metric(agent, metric_name,
                                       InTableUnit(metric_name, value.x))
                      ELSE bins[Len(bins)][1]
         IN Float(GetIn(label_scores, label, 0), GetIn(label_scores, label, 0))
    ELSE IF GetIn(agent.binning, metric_name, <<>>) = <<>>
    THEN Float(0, 0)
    ELSE _sigmoid_map(value, InThousandths(metric_name, agent.binning[metric_name]),
                      label_scores, 10 * agent.steepness)

\* the points the _eval_* methods give each label of a built-in table
LabelScores ==
    [gesture_active_ratio |->
        [ACTIVE |-> 350, MODERATE |-> 150, LOW |-> -50, INACTIVE |-> -200],
     eye_contact_ratio |->
        [EXCELLENT |-> 400, GOOD |-> 300, MODERATE |-> 100, LOW |-> -100, POOR |-> -300],
     filler_ratio |->
        [CLEAN |-> 400, GOOD |-> 200, MODERATE |-> 50, HIGH |-> -200,
         EXCESSIVE |-> -400],
     monotone_ratio |->
        [EXPRESSIVE |-> 300, VARIED |-> 150, MODERATE |-> 0, MONOTONE |-> -200,
         FLAT |-> -350],
     teacher_ratio |->
        [STUDENT_LED |-> 200, BALANCED |-> 150, TEACHER_MODERATE |-> 50,
         TEACHER_DOMINANT |-> -150, LECTURE_ONLY |-> -400],
     speaking_wpm |->
        [GOOD |-> 300, MODERATE |-> 150, SLOW |-> 0, FAST |-> -150,
         VERY_FAST |-> -300, VERY_SLOW |-> -300]]

\* the tables _sigmoid_map is called on: the built-in ones with their label
\* scores, the single bin and the empty table of test_pedagogy_v8.py, and a
\* single bin whose label has no score
SigmoidTables ==
    {[metric |-> n, bins |-> InThousandths(n, DEFAULT_BINNING[n]),
      scores |-> LabelScores[n]] : n \in DOMAIN DEFAULT_BINNING}
    \cup {[metric |-> "single", bins |-> << <<"ONLY", 0, 1000>> >>,
           scores |-> [ONLY |-> 500]],
          [metric |-> "unscored", bins |-> << <<"ONLY", 0, 1000>> >>,
           scores |-> EmptyItems],
          [metric |-> "empty", bins |-> <<>>, scores |-> EmptyItems]}

\* the bounds and centers of a table, values below, inside and far above the
\* unit interval, and an infinity
SigmoidValues(bins) ==
    {Finite(x) : x \in UNION {{bins[k][2], bins[k][3], (bins[k][2] + bins[k][3]) \div 2} :
                                  k \in DOMAIN bins}
                       \cup {-1000, 300, 500, 1000, 5000, 100000}}
    \cup {Infinite}

\* steepness 0.1, 1, 5, 10, 50, 100 and 1000
Steepnesses == {1, 10, 50, 100, 500, 1000, 10000}

\* _sigmoid_map(value, bins, scores, steepness) called directly
SigmoidMap ==
    /\ Len(history) < MaxCalls
    /\ history' = Append(history,
          [instance |-> instances, call |-> "_sigmoid_map",
           value |-> _sigmoid_map(args.value, args.bins, args.scores, args.steepness)])
    /\ UNCHANGED <<self, instances, args, orcVars>>

\* self._continuous_score(metric_name, value, label_scores)
ContinuousScore ==
    /\ Len(history) < MaxCalls
    /\ history' = Append(history,
          [instance |-> instances, call |-> "_continuous_score",
           value |-> _continuous_score(self, args.metric, args.value, args.scores)])
    /\ UNCHANGED <<self, instances, args, orcVars>>

SigmoidInit ==
    /\ \E t \in SigmoidTables, steepness \in Steepnesses :
          \E value \in SigmoidValues(t.bins) :
              args = [metric |-> t.metric, bins |-> t.bins, scores |-> t.scores,
                      value |-> value, steepness |-> steepness]
    /\ \E cs \in BOOLEAN : self = PedagogyAgentNew("default", cs, DefaultSteepness)
    /\ instances = 1
    /\ history = <<>>
    /\ OrchestratorInit

SigmoidNext == SigmoidMap \/ ContinuousScore

SigmoidSpec == SigmoidInit /\ [][SigmoidNext]_vars

\* the recorded direct calls of _sigmoid_map
SigmoidCalls == {i \in DOMAIN history : history[i].call = "_sigmoid_map"}

\* C23: for every value and every steepness, _sigmoid_map with a table of one
\* bin returns the score the score table gives that bin's label (5.0 for
\* {"ONLY": [0, 1]} and {"ONLY": 5.0}), and with an empty table returns 0.0.
C23_SingleBinReturnsScore ==
    \A i \in SigmoidCalls :
        /\ (Len(args.bins) = 1 /\ args.bins[1][1] \in DOMAIN args.scores) =>
              Result(i) = Float(args.scores[args.bins[1][1]],
                                args.scores[args.bins[1][1]])
        /\ args.metric = "single" => Result(i) = Float(500, 500)
        /\ Len(args.bins) = 0 => Result(i) = Float(0, 0)

\* _sigmoid_map has been called on the single bin with a value a hundred bin
\* widths away and steepness 1000
C23_Witness ==
    /\ SigmoidCalls # {}
    /\ args.metric = "single"
    /\ args.value = Finite(100000)
    /\ args.steepness = 10000

\* C24: for every metric value, every built-in table of two or more bins
\* (speaking_wpm and its top bin [145, 999] included) and every positive
\* steepness from 0.1 to 1000, _sigmoid_map returns a finite number and does
\* not raise; where every weight is zero it returns the score of the bin whose
\* center is nearest to the value.
C24_SigmoidFinite ==
    \A i \in SigmoidCalls :
        (args.metric \in DOMAIN DEFAULT_BINNING /\ Len(args.bins) >= 2) =>
            /\ Result(i).py = "float"
            /\ ~args.value.finite =>
                  Result(i) = Float(ScoreOf(args.bins[Closest(args.value, args.bins)],
                                            args.scores),
                                    ScoreOf(args.bins[Closest(args.value, args.bins)],
                                            args.scores))

-----------------------------------------------------------------------------
(* growth_analyzer._linear_trend.  Values are in tenths; the sums are kept  *)
(* as the integers 2n * ss_xy, 4 * ss_xx and n * n * ss_yy.                 *)

\* how long a list _linear_trend is called on
MaxTrendLen == 4

\* round(p / q, 3) in thousandths for q > 0, digit by digit
Thousandths(p, q) ==
    LET a == Abs(p)
        d1 == 10 * (a % q)
        d2 == 10 * (d1 % q)
        d3 == 10 * (d2 % q)
        floor == 1000 * (a \div q) + 100 * (d1 \div q) + 10 * (d2 \div q) + (d3 \div q)
        up == IF 2 * (d3 % q) >= q THEN 1 ELSE 0
    IN IF p < 0 THEN -(floor + up) ELSE floor + up

\* _linear_trend with the thresholds included in the two directions
_linear_trend_inclusive(values) ==
    LET n == Len(values)
        y_sum == SumSeq(values)
        ss_xy == SumSeq([i \in 1..n |-> (2 * (i - 1) - (n - 1)) * (n * values[i] - y_sum)])
        ss_xx == SumSeq([i \in 1..n |-> (2 * (i - 1) - (n - 1)) * (2 * (i - 1) - (n - 1))])
        ss_yy == SumSeq([i \in 1..n |-> (n * values[i] - y_sum) * (n * values[i] - y_sum)])
    IN IF n < 2 THEN [slope |-> 0, direction |-> "stable", r_squared |-> 0]
       ELSE [slope |-> Thousandths(2 * ss_xy, 10 * n * ss_xx),
             direction |-> IF 2 * ss_xy >= 5 * n * ss_xx THEN "improving"
                           ELSE IF 2 * ss_xy <= -5 * n * ss_xx THEN "declining"
                           ELSE "stable",
             r_squared |-> IF ss_yy # 0 THEN Thousandths(ss_xy * ss_xy, ss_xx * ss_yy)
                           ELSE 0]

\* _linear_trend: slope = ss_xy / ss_xx = 2 * (2n ss_xy) / (n * (4 ss_xx)) tenths
\* a step, compared with 0.5 and -0.5 before it is rounded
_linear_trend(values) ==
    LET n == Len(values)
        y_sum == SumSeq(values)
        ss_xy == SumSeq([i \in 1..n |-> (2 * (i - 1) - (n - 1)) * (n * values[i] - y_sum)])
        ss_xx == SumSeq([i \in 1..n |-> (2 * (i - 1) - (n - 1)) * (2 * (i - 1) - (n - 1))])
        ss_yy == SumSeq([i \in 1..n |-> (n * values[i] - y_sum) * (n * values[i] - y_sum)])
    IN IF n < 2 THEN [slope |-> 0, direction |-> "stable", r_squared |-> 0]
       ELSE [slope |-> IF ss_xx # 0 THEN Thousandths(2 * ss_xy, 10 * n * ss_xx) ELSE 0,
             direction |-> IF ss_xx # 0 /\ 2 * ss_xy > 5 * n * ss_xx THEN "improving"
                           ELSE IF ss_xx # 0 /\ 2 * ss_xy < -5 * n * ss_xx
                           THEN "declining"
                           ELSE "stable",
             r_squared |-> IF ss_xx # 0 /\ ss_yy # 0
                           THEN Thousandths(ss_xy * ss_xy, ss_xx * ss_yy)
                           ELSE 0]

\* scores a tenth or half a point apart, in tenths
TrendValues == {0, 1, 5, 6, 10, 16}

RECURSIVE SeqsUpTo(_, _)
\* the lists of at most n elements of S
SeqsUpTo(S, n) ==
    IF n = 0 THEN {<<>>}
    ELSE LET shorter == SeqsUpTo(S, n - 1)
         IN shorter \cup {Append(s, x) : s \in {t \in shorter : Len(t) = n - 1}, x \in S}

\* _linear_trend(values) called directly
LinearTrend ==
    /\ Len(history) < MaxCalls
    /\ history' = Append(history, [instance |-> instances, call |-> "_linear_trend",
                                   value |-> _linear_trend(args.values)])
    /\ UNCHANGED <<self, instances, args, orcVars>>

TrendInit ==
    /\ \E values \in SeqsUpTo(TrendValues, MaxTrendLen) : args = [values |-> values]
    /\ self = PedagogyAgentNew("default", FALSE, DefaultSteepness)
    /\ instances = 1
    /\ history = <<>>
    /\ OrchestratorInit

TrendNext == LinearTrend

TrendSpec == TrendInit /\ [][TrendNext]_vars

\* the least-squares slope over the indices 0..n-1 as the quotient
\* (n Sxy - Sx Sy) / (n Sxx - Sx Sx), values in tenths
LeastSquares(values) ==
    LET n == Len(values)
        Sx == SumSeq([i \in 1..n |-> i - 1])
        Sy == SumSeq(values)
        Sxy == SumSeq([i \in 1..n |-> (i - 1) * values[i]])
        Sxx == SumSeq([i \in 1..n |-> (i - 1) * (i - 1)])
    IN [num |-> n * Sxy - Sx * Sy, den |-> n * Sxx - Sx * Sx]

-----------------------------------------------------------------------------
(* reset() after a run with callbacks registered *)

\* no callback has been called yet
NothingDelivered == \A c \in DOMAIN delivered : delivered[c] = <<>>

\* CallbackSpec followed by reset(); run_pipeline is called again only while
\* no callback has been called, which keeps the callbacks' records finite
ResetNext ==
    \/ on_event
    \/ main = "idle" /\ NothingDelivered /\ RunPipelineStart
    \/ \E a \in AgentNames :
          \/ InSubmissionOrder(a) /\ RunAgentBegin(a)
          \/ EmitAgentStart(a)
          \/ PhaseReturn(a)
          \/ PhaseRaise(a)
          \/ MarkDone(a)
          \/ MarkError(a)
          \/ EmitAgentDone(a)
          \/ EmitAgentError(a)
    \/ SubmitPool
    \/ PoolJoin
    \/ DiscourseAnalyze
    \/ DiscourseRaise
    \/ CallFeedback
    \/ CallSynthesize
    \/ EmitPipelineDone
    \/ RunPipelineFinish
    \/ \E t \in Threads : InvokeCallbacks(t)
    \/ Reset

ResetSpec == CallbackInit /\ [][ResetNext]_vars

\* a step of reset(): the only step that takes the caller from a returned
\* run_pipeline back to idle
ResetStep == main = "returned" /\ main' = "idle"

\* C26: after reset(), called in any state reached after run_pipeline has
\* returned, every registered agent has status idle, progress 0, no start_time
\* or end_time, no result and no error, event_log is empty, the context is a
\* fresh SharedContext and pipeline_id, pipeline_start and pipeline_end are
\* cleared; the set of agents, their dependencies and the registered callbacks
\* are left unchanged.
C26_ResetClearsRun ==
    [][ResetStep =>
          /\ \A a \in DOMAIN agents' :
                /\ agents'[a].status = "idle"
                /\ agents'[a].progress = 0
                /\ agents'[a].start_time = FALSE
                /\ agents'[a].end_time = FALSE
                /\ agents'[a].result = None
                /\ agents'[a].error = "None"
          /\ event_log' = <<>>
          /\ context' = SharedContext(FALSE, FALSE)
          /\ pipeline_id' = FALSE
          /\ pipeline_end' = FALSE
          /\ DOMAIN agents' = DOMAIN agents
          /\ \A a \in DOMAIN agents : agents'[a].dependencies = agents[a].dependencies
          /\ _callbacks' = _callbacks
          /\ delivered' = delivered]_vars

\* reset() has been called after a run in which an agent failed, events were
\* logged and a callback was registered and called
C26_Witness ==
    /\ main = "idle"
    /\ event_log = <<>>
    /\ _callbacks >= 1
    /\ ~NothingDelivered
    /\ \E c \in DOMAIN delivered :
          \E k \in DOMAIN delivered[c] : delivered[c][k].type = "agent_error"
    /\ \A a \in AgentNames : agents[a].status = "idle"
    /\ agents["master"].dependencies = Dependencies["master"]

-----------------------------------------------------------------------------
(* Termination of run_pipeline                                              *)

\* the steps of the thread that called run_pipeline, once the run has started,
\* other than the phase functions and callbacks it calls: the statements of the
\* four _run_agent calls it makes itself, the pool's submission and join, the
\* discourse step, the final emit, the save and the return
MainSteps ==
    \/ \E a \in AgentNames \ ParallelAgents :
          \/ RunAgentBegin(a)
          \/ EmitAgentStart(a)
          \/ MarkDone(a)
          \/ MarkError(a)
          \/ EmitAgentDone(a)
          \/ EmitAgentError(a)
    \/ SubmitPool
    \/ PoolJoin
    \/ DiscourseAnalyze
    \/ DiscourseRaise
    \/ CallFeedback
    \/ CallSynthesize
    \/ EmitPipelineDone
    \/ RunPipelineFinish

\* the statements of _run_agent(a, ...) on its pool thread
WorkerSteps(a) ==
    \/ InSubmissionOrder(a) /\ RunAgentBegin(a)
    \/ EmitAgentStart(a)
    \/ MarkDone(a)
    \/ MarkError(a)
    \/ EmitAgentDone(a)
    \/ EmitAgentError(a)

\* _run_agent line 222: the phase function of a, once called, returns or raises
PhaseEnds(a) ==
    /\ worker[a] = PhasePoint(a)
    /\ Quiet(ThreadOf(a))
    /\ worker' = [worker EXCEPT ![a] = "called"]

LiveInit == PedagogyInit /\ OrchestratorInit

LiveNext ==
    \/ on_event
    \/ main = "idle" /\ RunPipelineStart
    \/ MainSteps
    \/ \E a \in ParallelAgents : WorkerSteps(a)
    \/ \E a \in AgentNames : PhaseReturn(a) \/ PhaseRaise(a)
    \/ \E t \in Threads : InvokeCallbacks(t)

\* One run of the pipeline with callbacks in which every phase function and
\* every callback that is called returns or raises, and the interpreter goes on
\* scheduling each thread that has a statement to execute
LiveSpec ==
    /\ LiveInit
    /\ [][LiveNext]_vars
    /\ WF_vars(MainSteps)
    /\ \A a \in ParallelAgents : WF_vars(WorkerSteps(a))
    /\ \A a \in AgentNames : WF_worker(PhaseEnds(a))
    /\ \A t \in Threads : WF_vars(InvokeCallbacks(t))

\* pipeline_done is in the event log
PipelineDoneEmitted == \E i \in DOMAIN event_log : event_log[i].type = "pipeline_done"

\* C27: a run of run_pipeline that has started eventually returns, whichever
\* agents fail; when it returns it returns a dict, pipeline_done has been
\* emitted and every agent is done or error
C27_RunReturns ==
    /\ (main = "extract") ~> (main = "returned")
    /\ [](main = "returned" =>
            /\ returned # None
            /\ returned.py = "dict"
            /\ PipelineDoneEmitted
            /\ \A a \in AgentNames : agents[a].status \in {"done", "error"})

\* a run has returned in which the extractor and the rubric agent failed and
\* a callback raised
C27_Witness ==
    /\ main = "returned"
    /\ returned # None
    /\ outcome["extractor"] = "raise"
    /\ outcome["pedagogy"] = "raise"
    /\ agents["extractor"].status = "error"
    /\ agents["pedagogy"].status = "error"
    /\ agents["master"].status = "done"
    /\ swallowed

-----------------------------------------------------------------------------
(* The order in which callbacks see the events of the pool's workers        *)

\* the pool agents inside _run_agent or inside the callback loop of an _emit
Inside == {b \in ParallelAgents : worker[b] \notin {"none", "ready", "finished"} \/ ~Quiet(b)}

\* a pool worker starts after the workers submitted before it have started and
\* while at most one other pool worker is at work
StartsInTurn(a) ==
    /\ Cardinality(Inside \ {a}) <= 1
    /\ \A i, j \in 1..Len(SubmissionOrder) :
          (SubmissionOrder[j] = a /\ i < j) => worker[SubmissionOrder[i]] # "ready"

RaceInit == PedagogyInit /\ OrchestratorInit

\* run_pipeline up to the join of the pool with one callback registered before
\* the run and every phase function returning, under the schedules in which the
\* workers start in submission order and no more than two of them overlap
RaceNext ==
    \/ main = "idle" /\ _callbacks = 0 /\ on_event
    \/ main = "idle" /\ RunPipelineStart
    \/ \E a \in {"extractor"} \cup ParallelAgents :
          \/ StartsInTurn(a) /\ RunAgentBegin(a)
          \/ EmitAgentStart(a)
          \/ PhaseReturn(a)
          \/ MarkDone(a)
          \/ EmitAgentDone(a)
    \/ SubmitPool
    \/ PoolJoin
    \/ \E t \in Threads : InvokeCallbacks(t)

RaceSpec == RaceInit /\ [][RaceNext]_vars

\* the place of an event in event_log
LogPosition(event) == CHOOSE k \in DOMAIN event_log : event_log[k] = event

\* C28: every callback has been called with the events in the order in which
\* they stand in event_log
C28_CallbacksInLogOrder ==
    \A c \in DOMAIN delivered :
        \A i, j \in DOMAIN delivered[c] :
            i < j => LogPosition(delivered[c][i]) < LogPosition(delivered[c][j])

-----------------------------------------------------------------------------
(* growth_analyzer.GrowthAnalyzer.  Scores and percentages are in tenths.   *)

\* how many sessions a history holds
MaxSessions == 2

\* a row of dimension_scores as get_growth_data selects it
Row(name, percentage) == [name |-> name, percentage |-> percentage]

\* save_result followed by get_growth_data: the entry of one saved run, its
\* total taken from pedagogy or {} and one row per dimension of the rubric
GrowthEntry(pedagogy) ==
    LET ped == OrEmpty(pedagogy)
    IN Dict([analyzed_at |-> "now",
             total_score |-> Get(ped, "total_score", 0),
             dimensions |-> Get(ped, "dimensions", <<>>)])

\* what the rubric phase left in context.pedagogy_result: nothing, a result
\* without dimensions, results with weak, strong and middling dimensions
PedagogyResults ==
    {None, EmptyDict,
     Dict([total_score |-> 700, dimensions |-> <<>>]),
     Dict([total_score |-> 520,
           dimensions |-> <<Row("expertise", 450), Row("methods", 700),
                            Row("participation", 900)>>]),
     Dict([total_score |-> 850,
           dimensions |-> <<Row("expertise", 800), Row("methods", 850),
                            Row("participation", 950)>>]),
     Dict([total_score |-> 400,
           dimensions |-> <<Row("expertise", 550), Row("methods", 500),
                            Row("participation", 300), Row("attitude", 590)>>]),
     Dict([total_score |-> 610,
           dimensions |-> <<Row("expertise", 600), Row("methods", 599)>>])}

\* the records of a history: saved runs, and a dict without a dimensions key
HistoryRecords ==
    {GrowthEntry(ped) : ped \in PedagogyResults} \cup {Dict([total_score |-> 600])}

RECURSIVE Flatten(_)
\* the rows of all lists, in order
Flatten(lists) ==
    IF lists = <<>> THEN <<>> ELSE Head(lists) \o Flatten(Tail(lists))

RECURSIVE InsertionOrder(_)
\* the keys of a dict filled from the list, in the order of their first insertion
InsertionOrder(keys) ==
    IF keys = <<>> THEN <<>>
    ELSE LET before == InsertionOrder(SubSeq(keys, 1, Len(keys) - 1))
             last == keys[Len(keys)]
         IN IF \E i \in DOMAIN before : before[i] = last THEN before
            ELSE Append(before, last)

RECURSIVE SortedByPercentage(_)
\* sorted(latest_dims, key=lambda x: x.get("percentage", 0)): ascending, stable
SortedByPercentage(rows) ==
    IF rows = <<>> THEN <<>>
    ELSE LET before == SortedByPercentage(SubSeq(rows, 1, Len(rows) - 1))
             last == rows[Len(rows)]
             k == Cardinality({i \in DOMAIN before :
                                  before[i].percentage <= last.percentage})
         IN SubSeq(before, 1, k) \o <<last>> \o SubSeq(before, k + 1, Len(before))

\* s[:n]
Take(s, n) == SubSeq(s, 1, IF Len(s) < n THEN Len(s) ELSE n)

\* _IMPROVEMENT_TIPS: three tips for each of the seven dimensions
_IMPROVEMENT_TIPS == [name \in {DimNames[i] : i \in DOMAIN DimNames} |-> 3]

\* _PHASE_TEMPLATES: the weeks of each period and its target_boost, in points
_PHASE_TEMPLATES == [w3 |-> [weeks |-> 3, target_boost |-> 5],
                     w6 |-> [weeks |-> 6, target_boost |-> 12],
                     w12 |-> [weeks |-> 12, target_boost |-> 20]]

\* len(_WEEKLY_ACTIVITIES)
WeeklyActivities == 12

\* round(p / q) for p >= 0, q > 0
RoundDiv(p, q) == (2 * p + q) \div (2 * q)

\* current_scores: name -> percentage of the latest session, the last row winning
CurrentScore(latest_dims, name, default) ==
    LET rows == {i \in DOMAIN latest_dims : latest_dims[i].name = name}
    IN IF rows = {} THEN default
       ELSE latest_dims[CHOOSE i \in rows : \A j \in rows : j <= i].percentage

\* generate_roadmap: the weakest dimensions in turn, week by week; the index
\* week_idx % len(weaknesses) raises when there is no dimension at all
generate_roadmap(profile, dim_trends, latest_dims) ==
    LET sorted == SortedByPercentage(latest_dims)
        weaknesses == IF profile.weaknesses # <<>> THEN profile.weaknesses
                      ELSE Take([i \in DOMAIN sorted |-> sorted[i].name], 3)
        Week(meta, k) ==
            LET focus_dim == weaknesses[((k - 1) % Len(weaknesses)) + 1]
                tips == IF focus_dim \in DOMAIN _IMPROVEMENT_TIPS
                        THEN _IMPROVEMENT_TIPS[focus_dim] ELSE 1
                current == CurrentScore(latest_dims, focus_dim, 500)
                target == current + RoundDiv(10 * meta.target_boost * k, meta.weeks)
            IN [week |-> k, focus_dimension |-> focus_dim,
                goal |-> (k - 1) % tips, activity |-> (k - 1) % WeeklyActivities,
                target_score |-> IF target > 1000 THEN 1000 ELSE target,
                current_score |-> current]
    IN IF weaknesses = <<>> THEN Raised("ZeroDivisionError")
       ELSE Dict([period \in DOMAIN _PHASE_TEMPLATES |->
                    LET meta == _PHASE_TEMPLATES[period]
                    IN [target_dimensions |-> Take(weaknesses, 3),
                        weeks |-> [k \in 1..meta.weeks |-> Week(meta, k)],
                        expected_improvement |-> meta.target_boost]])

\* GrowthAnalyzer.analyze
analyze(hist) ==
    IF hist = <<>> THEN Dict([error |-> "No historical data available"])
    ELSE
    LET total_scores == [i \in DOMAIN hist |-> Get(hist[i], "total_score", 0)]
        rows == Flatten([i \in DOMAIN hist |-> Get(hist[i], "dimensions", <<>>)])
        names == InsertionOrder([i \in DOMAIN rows |-> rows[i].name])
        Series(name) ==
            LET of == SelectSeq(rows, LAMBDA r : r.name = name)
            IN [i \in DOMAIN of |-> of[i].percentage]
        Trend(name) ==
            LET values == Series(name)
                trend == _linear_trend(values)
            IN [slope |-> trend.slope, direction |-> trend.direction,
                r_squared |-> trend.r_squared,
                latest |-> values[Len(values)], first |-> values[1],
                change |-> values[Len(values)] - values[1]]
        dim_trends == [name \in {names[i] : i \in DOMAIN names} |-> Trend(name)]
        total_trend == _linear_trend(total_scores)
        latest_dims == Get(hist[Len(hist)], "dimensions", <<>>)
        strong == SelectSeq(latest_dims, LAMBDA d : d.percentage >= 800)
        weak == SelectSeq(latest_dims, LAMBDA d : d.percentage < 600)
        strengths == [i \in DOMAIN strong |-> strong[i].name]
        weaknesses == [i \in DOMAIN weak |-> weak[i].name]
        \* max / min over dim_trends.items(): the first of the extreme ones
        First(best(_)) == names[CHOOSE i \in DOMAIN names :
                                /\ best(names[i])
                                /\ \A j \in DOMAIN names : best(names[j]) => i <= j]
        Highest(n) == \A o \in DOMAIN dim_trends : dim_trends[o].change <= dim_trends[n].change
        Lowest(n) == \A o \in DOMAIN dim_trends : dim_trends[o].change >= dim_trends[n].change
        most_improved == IF names = <<>> THEN "" ELSE First(Highest)
        most_declined == IF names = <<>> THEN "" ELSE First(Lowest)
        top == Take(weaknesses, 3)
        tipped == SelectSeq(top, LAMBDA name : name \in DOMAIN _IMPROVEMENT_TIPS)
        feedback == [i \in DOMAIN tipped |-> [dimension |-> tipped[i], tips |-> 2]]
        profile == [strengths |-> strengths, weaknesses |-> weaknesses]
        roadmap == generate_roadmap(profile, dim_trends, latest_dims)
    IN IF roadmap.py = "raise" THEN roadmap
       ELSE Dict([sessions |-> Len(hist),
                  period |-> [first |-> Get(hist[1], "analyzed_at", ""),
                              last |-> Get(hist[Len(hist)], "analyzed_at", "")],
                  total_trend |-> [scores |-> total_scores,
                                   slope |-> total_trend.slope,
                                   direction |-> total_trend.direction,
                                   r_squared |-> total_trend.r_squared],
                  dimension_trends |-> dim_trends,
                  profile |-> [strengths |-> strengths, weaknesses |-> weaknesses,
                               most_improved |->
                                   IF names # <<>> /\ dim_trends[most_improved].change > 0
                                   THEN most_improved ELSE "",
                               most_declined |->
                                   IF names # <<>> /\ dim_trends[most_declined].change < 0
                                   THEN most_declined ELSE ""],
                  improvement_feedback |-> feedback,
                  roadmap |-> roadmap,
                  version |-> "7.1"])

\* GrowthAnalyzer().analyze(history) called on the current history
Analyze ==
    /\ Len(history) < MaxCalls
    /\ history' = Append(history, [instance |-> instances, call |-> "analyze",
                                   value |-> analyze(args.history)])
    /\ UNCHANGED <<self, instances, args, orcVars>>

GrowthInit ==
    /\ \E h \in SeqsUpTo(HistoryRecords, MaxSessions) : args = [history |-> h]
    /\ self = PedagogyAgentNew("default", FALSE, DefaultSteepness)
    /\ instances = 1
    /\ history = <<>>
    /\ OrchestratorInit

GrowthNext == Analyze

GrowthSpec == GrowthInit /\ [][GrowthNext]_vars

\* C29: analyze returns the error dict for an empty history and, without
\* raising, a report dict for every other history
C29_AnalyzeReturnsReport ==
    \A i \in DOMAIN history :
        IF args.history = <<>>
        THEN Result(i) = Dict([error |-> "No historical data available"])
        ELSE /\ Result(i).py = "dict"
             /\ "error" \notin DOMAIN Result(i).items
             /\ Result(i).items.sessions = Len(args.history)

-----------------------------------------------------------------------------
(* The order of the labels _bin returns                                     *)

\* the place of a label among the keys of a table
LabelPosition(label, bins) == CHOOSE k \in DOMAIN bins : bins[k][1] = label

\* C30: on a built-in table _bin is order-preserving: of two values, those
\* below the first low and above the last high included, the smaller one gets
\* a label that stands no later in the table than the label of the larger one
C30_BinOrderPreserving ==
    \A i \in DOMAIN history :
        (\E m \in DOMAIN DEFAULT_BINNING : args.bins = DEFAULT_BINNING[m]) =>
            \A v \in BoundaryValues(args.bins) :
                LET here == LabelPosition(Result(i), args.bins)
                    there == LabelPosition(_bin(v, args.bins), args.bins)
                IN /\ v <= args.value => there <= here
                   /\ args.value <= v => here <= there

=========================================================================
